---- MODULE Spec2Model ----
(***************************************************************************)
(* Raworc control plane: session state machine, task queue and lifecycle   *)
(* worker, reconciliation loops, message/session coupling and the RBAC     *)
(* authorization engine, modelled from the Rust sources.                   *)
(***************************************************************************)
EXTENDS Integers, Sequences, FiniteSets, TLC

(***************************************************************************)
(* Bounds of the model                                                     *)
(***************************************************************************)
MaxTime == 3
MaxTasks == 2
MaxMessages == 1
MaxContainers == 1
MaxRoles == 2
MaxBindings == 2

(* Option::None of the numeric optionals (ids, timestamps) and of strings  *)
NULL == 0
NoReason == "NONE"

SessionIds == {1}
ContainerIds == 1..MaxContainers
Workspaces == {"team-a", "team-b"}

(***************************************************************************)
(* models/session.rs: SessionState                                         *)
(***************************************************************************)
SessionState == {"Init", "Ready", "Idle", "Busy", "Error"}

(* can_transition_to with a self-transition let through *)
can_transition_to_selfloop(current, target) ==
    \/ <<current, target>> \in
          {<<"Init", "Ready">>, <<"Init", "Error">>, <<"Ready", "Busy">>, <<"Ready", "Idle">>,
           <<"Ready", "Error">>, <<"Busy", "Ready">>, <<"Busy", "Error">>, <<"Idle", "Ready">>,
           <<"Idle", "Error">>, <<"Error", "Init">>, <<"Error", "Ready">>}
    \/ (current = "Ready" /\ target = "Ready")

can_transition_to(current, target) ==
    CASE current = "Init"  /\ target = "Ready" -> TRUE
      [] current = "Init"  /\ target = "Error" -> TRUE
      [] current = "Ready" /\ target = "Idle"  -> TRUE
      [] current = "Ready" /\ target = "Busy"  -> TRUE
      [] current = "Ready" /\ target = "Error" -> TRUE
      [] current = "Idle"  /\ target = "Ready" -> TRUE
      [] current = "Idle"  /\ target = "Error" -> TRUE
      [] current = "Busy"  /\ target = "Ready" -> TRUE
      [] current = "Busy"  /\ target = "Error" -> TRUE
      [] current = "Error" /\ target = "Init"  -> TRUE
      [] current = "Error" /\ target = "Ready" -> TRUE
      [] OTHER -> FALSE

requires_container(state) == state \in {"Ready", "Busy"}

(***************************************************************************)
(* rbac.rs: principals, rules, roles, bindings and the pure engine         *)
(***************************************************************************)
SubjectType == {"Subject", "ServiceAccount"}

AdminSA  == [kind |-> "ServiceAccount", name |-> "admin"]
AliceSub == [kind |-> "Subject", name |-> "alice"]
AliceSA  == [kind |-> "ServiceAccount", name |-> "alice"]
BobSub   == [kind |-> "Subject", name |-> "bob"]
Principals == {AdminSA, AliceSub, AliceSA, BobSub}

(* AuthPrincipal::name / AuthPrincipal::subject_type *)
name(principal) == principal.name
subject_type(principal) == principal.kind

(* Rule.resource_names : Option<Vec<String>> *)
NoNames == [some |-> FALSE, names |-> {}]
SomeNames(S) == [some |-> TRUE, names |-> S]

Rule(g, r, v, n) == [api_groups |-> g, resources |-> r, verbs |-> v, resource_names |-> n]

(* get_admin_role: the single rule of the seeded admin role *)
AdminRule == Rule({"*"}, {"*"}, {"*"}, NoNames)

RuleChoices ==
    { AdminRule,
      Rule({"api"}, {"sessions"}, {"update", "delete"}, NoNames),
      Rule({"api"}, {"roles", "role-bindings"}, {"create"}, NoNames),
      Rule({"api"}, {"sessions"}, {"*"}, SomeNames({"s1"})),
      Rule({"api"}, {"*"}, {"update"}, SomeNames({"*"})),
      Rule({"api"}, {"sessions"}, {"update"}, SomeNames({})) }

RuleSets == { S \in SUBSET RuleChoices : Cardinality(S) \in 1..2 }

get_admin_role == [name |-> "admin", rules |-> {AdminRule}]

(* PermissionContext *)
PermissionContext(g, r, v, n, w) ==
    [api_group |-> g, resource |-> r, verb |-> v, resource_name |-> n, workspace |-> w]

NoName == "NONE"
NoWorkspace == "NONE"

(* rule_grants_permission with a name-restricted rule granting a request   *)
(* that carries no name                                                    *)
rule_grants_permission_unnamed(rule, context) ==
    LET api_group_match == "*" \in rule.api_groups \/ context.api_group \in rule.api_groups
        resource_match  == "*" \in rule.resources \/ context.resource \in rule.resources
        verb_match      == "*" \in rule.verbs \/ context.verb \in rule.verbs
        resource_name_match ==
            CASE ~rule.resource_names.some -> TRUE
              [] rule.resource_names.some /\ context.resource_name # NoName ->
                    "*" \in rule.resource_names.names
                    \/ context.resource_name \in rule.resource_names.names
              [] OTHER -> TRUE
    IN api_group_match /\ resource_match /\ verb_match /\ resource_name_match

rule_grants_permission(rule, context) ==
    LET api_group_match == "*" \in rule.api_groups \/ context.api_group \in rule.api_groups
        resource_match  == "*" \in rule.resources \/ context.resource \in rule.resources
        verb_match      == "*" \in rule.verbs \/ context.verb \in rule.verbs
        resource_name_match ==
            CASE ~rule.resource_names.some -> TRUE
              [] rule.resource_names.some /\ context.resource_name # NoName ->
                    "*" \in rule.resource_names.names
                    \/ context.resource_name \in rule.resource_names.names
              [] OTHER -> FALSE
    IN api_group_match /\ resource_match /\ verb_match /\ resource_name_match

role_grants_permission(role, context) ==
    \E rule \in role.rules : rule_grants_permission(rule, context)

get_applicable_bindings(principal, role_bindings) ==
    { binding \in role_bindings :
        /\ binding.principal_type = subject_type(principal)
        /\ binding.principal_name = name(principal) }

has_permission(principal, roleset, role_bindings, context) ==
    LET applicable_bindings == get_applicable_bindings(principal, role_bindings)
        bound_roles == { role \in roleset :
                           \E binding \in applicable_bindings : role.name = binding.role_name }
    IN \E role \in bound_roles : role_grants_permission(role, context)

(***************************************************************************)
(* database.rs: the stored form of principal_type and the binding queries  *)
(***************************************************************************)
principal_type_str(st) == IF st = "Subject" THEN "User" ELSE "ServiceAccount"
principal_type_of(str) == IF str = "ServiceAccount" THEN "ServiceAccount" ELSE "Subject"

(* a role_bindings row as the read path returns it *)
binding_of_row(row) ==
    [id |-> row.id, role_name |-> row.role_name, principal_name |-> row.principal_name,
     principal_type |-> principal_type_of(row.principal_type), workspace |-> row.workspace]

get_role_bindings_for_subject(rows, subject_name, st, workspace) ==
    { binding_of_row(row) : row \in
        { r \in rows :
            /\ r.principal_name = subject_name
            /\ r.principal_type = principal_type_str(st)
            /\ (workspace = NoWorkspace \/ r.workspace = workspace \/ r.workspace = NoWorkspace) } }

VARIABLES
    now,            \* wall clock (NOW() / Utc::now())
    sessions,       \* table sessions
    tasks,          \* table session_tasks, in insertion order
    messages,       \* table session_messages, in insertion order
    containers,     \* the container engine's containers, by id
    api,            \* in-flight API handler activations
    worker,         \* the lifecycle worker (SessionManager::run)
    health,         \* health_check_loop
    idle,           \* idle_timeout_loop
    roles,          \* table roles
    role_bindings,  \* table role_bindings
    authz,          \* outcome of the last RBAC-guarded request
    service_accounts, \* table service_accounts, by name
    tokens,         \* the JWTs issued so far
    authn           \* outcome of the last request through the router

vars == <<now, sessions, tasks, messages, containers, api, worker, health, idle,
          roles, role_bindings, authz, service_accounts, tokens, authn>>

lifecycle_vars == <<now, sessions, tasks, messages, containers, api, worker, health, idle>>
binding_vars == <<roles, role_bindings, authz>>
authn_vars == <<service_accounts, tokens, authn>>
rbac_vars == <<roles, role_bindings, authz, service_accounts, tokens, authn>>

(***************************************************************************)
(* auth.rs / rbac_enforcement.rs: permission checks against the tables     *)
(***************************************************************************)
check_permission(principal, context) ==
    has_permission(principal, roles,
                   get_role_bindings_for_subject(role_bindings, name(principal),
                                                 subject_type(principal), NoWorkspace),
                   context)

PermissionRequirement(g, r, v) == [api_group |-> g, resource |-> r, verb |-> v]

ROLE_CREATE == PermissionRequirement("api", "roles", "create")
ROLE_BINDING_CREATE == PermissionRequirement("api", "role-bindings", "create")
ROLE_BINDING_DELETE == PermissionRequirement("api", "role-bindings", "delete")
AGENT_LIST == PermissionRequirement("api", "agents", "list")
SESSION_UPDATE == PermissionRequirement("api", "sessions", "update")
SESSION_DELETE == PermissionRequirement("api", "sessions", "delete")

(* check_api_permission letting every request through *)
check_api_permission_open(principal, requirement, target_workspace) == TRUE

check_api_permission(principal, requirement, target_workspace) ==
    check_permission(principal,
        PermissionContext(requirement.api_group, requirement.resource, requirement.verb,
                          NoName, target_workspace))


(***************************************************************************)
(* Rows and requests                                                       *)
(***************************************************************************)
NoRow ==
    [exists |-> FALSE, state |-> "Init", workspace |-> "team-a", created_by |-> "alice",
     container_id |-> NULL, persistent_volume_id |-> NULL,
     started_at |-> NULL, last_activity_at |-> NULL, terminated_at |-> NULL,
     termination_reason |-> NoReason, deleted_at |-> NULL,
     waiting_timeout_seconds |-> NULL]

(* Session::create: INSERT INTO sessions (...) with the schema defaults *)
create(workspace, waiting_timeout_seconds, created_by) ==
    [NoRow EXCEPT !.exists = TRUE, !.workspace = workspace, !.created_by = created_by,
                  !.waiting_timeout_seconds = waiting_timeout_seconds]

(* find_by_id without its deleted_at filter *)
find_by_id_unfiltered(id) == sessions[id].exists

(* Session::find_by_id: WHERE id = $1 AND deleted_at IS NULL *)
find_by_id(id) == sessions[id].exists /\ sessions[id].deleted_at = NULL

(* UpdateSessionStateRequest *)
UpdateSessionStateRequest(state, container_id, persistent_volume_id, termination_reason) ==
    [state |-> state, container_id |-> container_id,
     persistent_volume_id |-> persistent_volume_id,
     termination_reason |-> termination_reason]

NoRequest == UpdateSessionStateRequest("Init", NULL, NULL, NoReason)

(* update_state with the transition left unvalidated *)
update_state_check_lenient(id, req) ==
    IF ~find_by_id(id) THEN "none" ELSE "ok"

(* Session::update_state, first half: the read of the current row and the  *)
(* validation of the transition                                            *)
update_state_check(id, req) ==
    IF ~find_by_id(id) THEN "none"
    ELSE IF ~can_transition_to(sessions[id].state, req.state) THEN "invalid"
    ELSE "ok"

(* Session::update_state, second half: UPDATE sessions SET ... WHERE id = $n *)
update_state_write(row, req, t) ==
    IF ~row.exists THEN row
    ELSE [row EXCEPT
            !.state = req.state,
            !.last_activity_at = t,
            !.started_at = IF req.state = "Ready" THEN t ELSE @,
            !.terminated_at = IF req.state = "Error" THEN t ELSE @,
            !.termination_reason =
                IF req.state = "Error" /\ req.termination_reason # NoReason
                THEN req.termination_reason ELSE @,
            !.container_id = IF req.container_id # NULL THEN req.container_id ELSE @,
            !.persistent_volume_id =
                IF req.persistent_volume_id # NULL THEN req.persistent_volume_id ELSE @]

(* a session_tasks row as the API handlers insert it *)
Task(task_type, session_id, t) ==
    [task_type |-> task_type, session_id |-> session_id, status |-> "pending",
     created_at |-> t, started_at |-> NULL, completed_at |-> NULL, error |-> NoReason]

(***************************************************************************)
(* The container engine                                                    *)
(***************************************************************************)
NoContainer == [status |-> "none", name |-> NULL]

container_exists(c) == c \in ContainerIds /\ containers[c].status \in {"created", "running", "exited"}
is_container_running(c) == container_exists(c) /\ containers[c].status = "running"
(* the container named raworc-session-<id>, if the engine has one *)
named(id) == { c \in ContainerIds : container_exists(c) /\ containers[c].name = id }
(* ids the engine has not handed out yet *)
fresh == { c \in ContainerIds : containers[c].status = "none" }
next_id == CHOOSE c \in fresh : \A d \in fresh : c <= d

(***************************************************************************)
(* Process records                                                         *)
(***************************************************************************)
ApiProcs == {"a1"}
(* the operator processes, each running SessionManager::run; MainWorker is  *)
(* the deployment with a single operator                                    *)
Workers == {"w1", "w2"}
MainWorker == {"w1"}

(* a request that carries no authenticated principal *)
Anonymous == [kind |-> "Subject", name |-> "anonymous"]

IdleCall ==
    [pc |-> "idle", op |-> "none", caller |-> Anonymous, sid |-> 1, old_state |-> "Init",
     req |-> NoRequest, msg |-> [role |-> "User", agent_id |-> NULL], status |-> "none"]

IdleWorker == [pc |-> "idle", batch |-> <<>>]
IdleHealth == [pc |-> "idle", snapshot |-> <<>>, req |-> NoRequest]
IdleSweep  == [at |-> 0, last |-> "none"]

NoAuthz == [principal |-> AdminSA, requirement |-> ROLE_CREATE, workspace |-> NoWorkspace,
            allowed |-> TRUE, op |-> "none"]

(* seed_rbac_system: admin role and its global binding to the admin account *)
seed_roles == {get_admin_role}
seed_bindings ==
    {[id |-> 1, role_name |-> "admin", principal_name |-> "admin",
      principal_type |-> principal_type_str("ServiceAccount"), workspace |-> NoWorkspace]}

(* the service_accounts table: seed_rbac_system inserts the admin account *)
AccountNames == {"admin", "alice"}
NoAccount == [exists |-> FALSE, active |-> FALSE]
seed_service_accounts ==
    [user \in AccountNames |->
        IF user = "admin" THEN [exists |-> TRUE, active |-> TRUE] ELSE NoAccount]

(* RbacClaims inside a JWT; signed tells whether it carries the server's    *)
(* signature                                                               *)
RbacClaims(sub, sub_type, exp) == [sub |-> sub, sub_type |-> sub_type, exp |-> exp, signed |-> TRUE]
NoToken == [sub |-> "NONE", sub_type |-> "Subject", exp |-> 0, signed |-> FALSE]

NoAuthn == [route |-> "none", bearer |-> NoToken, status |-> "none", ran |-> FALSE,
            issued |-> NoToken]

Init ==
    /\ now = 1
    /\ sessions = [id \in SessionIds |-> NoRow]
    /\ tasks = <<>>
    /\ messages = <<>>
    /\ containers = [c \in ContainerIds |-> NoContainer]
    /\ api = [p \in ApiProcs |-> IdleCall]
    /\ worker = [w \in Workers |-> IdleWorker]
    /\ health = IdleHealth
    /\ idle = IdleSweep
    /\ roles = seed_roles
    /\ role_bindings = seed_bindings
    /\ authz = NoAuthz
    /\ service_accounts = seed_service_accounts
    /\ tokens = {}
    /\ authn = NoAuthn

(* the clock advances *)
Tick ==
    /\ now < MaxTime
    /\ now' = now + 1
    /\ UNCHANGED <<sessions, tasks, messages, containers, api, worker, health, idle>>
    /\ UNCHANGED rbac_vars

Callers == {AliceSub, BobSub}
Creators == {AliceSub}
MessageCallers == {BobSub}
SessionWorkspaces == {"team-a"}
username(principal) == principal.name

(* the handler returns: the slot keeps the caller, the operation and its    *)
(* HTTP outcome                                                            *)
Reply(p, caller, op, id, status) ==
    api' = [api EXCEPT ![p] = [IdleCall EXCEPT !.op = op, !.caller = caller, !.sid = id,
                                               !.status = status]]

(* the same for a handler that is past its first await *)
Done(p, op, id, status) == Reply(p, api[p].caller, op, id, status)

(* task rows the in-flight handlers may still insert *)
reserved == Cardinality({ q \in ApiProcs : api[q].op = "update_session_state" /\ api[q].pc # "idle" })
(* message rows the in-flight handlers may still insert *)
reserved_messages == Cardinality({ q \in ApiProcs : api[q].op = "create_message" /\ api[q].pc # "idle" })

(***************************************************************************)
(* handlers/sessions.rs: create_session (POST /sessions)                   *)
(***************************************************************************)
TimeoutChoices == {1}

create_session(p, caller, id, workspace, timeout) ==
    /\ api[p].pc = "idle"
    /\ ~sessions[id].exists
    /\ Len(tasks) + reserved < MaxTasks
    /\ sessions' = [sessions EXCEPT ![id] = create(workspace, timeout, username(caller))]
    /\ tasks' = Append(tasks, Task("create_session", id, now))
    /\ Reply(p, caller, "create_session", id, "OK")
    /\ UNCHANGED <<now, messages, containers, worker, health, idle>>
    /\ UNCHANGED rbac_vars


(***************************************************************************)
(* operator/session_manager.rs and operator/docker_manager.rs: the worker  *)
(***************************************************************************)
ClaimLimit == 5

(* the pending rows with failed rows taken up again *)
pending_with_failed == { i \in 1..Len(tasks) : tasks[i].status \in {"pending", "failed"} }

pending == { i \in 1..Len(tasks) : tasks[i].status = "pending" }

(* the claim without its LIMIT *)
claimable_unlimited == {pending}

(* the row sets SELECT ... WHERE status = 'pending' ORDER BY created_at      *)
(* LIMIT 5 may return: as many pending rows as the limit allows, none of    *)
(* them newer than a pending row left out (rows of equal created_at come in *)
(* either order)                                                            *)
claimable ==
    { S \in SUBSET pending :
        /\ Cardinality(S) = IF Cardinality(pending) < ClaimLimit
                            THEN Cardinality(pending) ELSE ClaimLimit
        /\ \A i \in S, j \in pending \ S : tasks[i].created_at <= tasks[j].created_at }

(* the orders in which RETURNING * may hand back the updated rows: the      *)
(* ORDER BY belongs to the subselect that picks them, and the UPDATE has    *)
(* none of its own                                                          *)
RECURSIVE returning_orders(_)
returning_orders(S) ==
    IF S = {} THEN {<<>>}
    ELSE UNION { { <<i>> \o q : q \in returning_orders(S \ {i}) } : i \in S }

(* fetch_pending_tasks: UPDATE ... WHERE id IN (SELECT ... LIMIT 5 FOR UPDATE SKIP LOCKED) *)
(* RETURNING *                                                                             *)
fetch_pending_tasks(w) ==
    /\ worker[w].pc = "idle"
    /\ pending # {}
    /\ \E claimed \in claimable : \E returned \in returning_orders(claimed) :
          /\ tasks' = [i \in 1..Len(tasks) |->
                          IF i \in claimed
                          THEN [tasks[i] EXCEPT !.status = "processing", !.started_at = now]
                          ELSE tasks[i]]
          /\ worker' = [worker EXCEPT ![w] = [pc |-> "batch",
                                              batch |-> returned]]
    /\ UNCHANGED <<now, sessions, messages, containers, api, health, idle>>
    /\ UNCHANGED rbac_vars

(* DockerManager::create_container: create, then start, the container      *)
(* named raworc-session-<id>. The engine refuses a name that is in use and *)
(* may fail either call.                                                   *)
create_container_outcomes(id) ==
    IF named(id) # {} \/ fresh = {} THEN {"create_failed"}
    ELSE {"ok", "create_failed", "start_failed"}

create_container(id, outcome) ==
    CASE outcome = "ok" ->
            [containers EXCEPT ![next_id] = [status |-> "running", name |-> id]]
      [] outcome = "start_failed" ->
            [containers EXCEPT ![next_id] = [status |-> "created", name |-> id]]
      [] OTHER -> containers

(* DockerManager::destroy_container: remove_container(name, force) *)
destroy_container(id) ==
    [c \in ContainerIds |->
        IF c \in named(id) THEN [containers[c] EXCEPT !.status = "removed"] ELSE containers[c]]

(* handle_create_session: UPDATE sessions SET state = 'READY', ... WHERE id = $1 *)
handle_create_session(row, t) ==
    IF ~row.exists THEN row
    ELSE [row EXCEPT !.state = "Ready", !.started_at = t, !.last_activity_at = t]

(* handle_destroy_session: UPDATE sessions SET state = 'IDLE', ... WHERE id = $1 *)
handle_destroy_session(row, t) ==
    IF ~row.exists THEN row
    ELSE [row EXCEPT !.state = "Idle", !.terminated_at = t]

mark_task_completed(i) ==
    [tasks EXCEPT ![i].status = "completed", ![i].completed_at = now]

(* the failure never written to the row *)
mark_task_failed_dropped(i, error) == tasks

mark_task_failed(i, error) ==
    [tasks EXCEPT ![i].status = "failed", ![i].error = error, ![i].completed_at = now]

(* process_task on the next task of the claimed batch *)
process_task(w) ==
    /\ worker[w].pc = "batch"
    /\ LET i == Head(worker[w].batch)
           task == tasks[i]
           id == task.session_id
           rest == Tail(worker[w].batch)
       IN /\ worker' = [worker EXCEPT ![w] = IF rest = <<>> THEN IdleWorker
                                             ELSE [pc |-> "batch", batch |-> rest]]
          /\ CASE task.task_type = "create_session" ->
                    \E outcome \in create_container_outcomes(id) :
                        /\ containers' = create_container(id, outcome)
                        /\ IF outcome = "ok"
                           THEN /\ sessions' = [sessions EXCEPT
                                        ![id] = handle_create_session(sessions[id], now)]
                                /\ tasks' = mark_task_completed(i)
                           ELSE /\ sessions' = sessions
                                /\ tasks' = mark_task_failed(i, outcome)
               [] task.task_type = "destroy_session" ->
                    IF named(id) # {}
                    THEN /\ containers' = destroy_container(id)
                         /\ sessions' = [sessions EXCEPT
                                 ![id] = handle_destroy_session(sessions[id], now)]
                         /\ tasks' = mark_task_completed(i)
                    ELSE /\ tasks' = mark_task_failed(i, "Failed to destroy container")
                         /\ UNCHANGED <<sessions, containers>>
               [] OTHER ->
                    /\ tasks' = mark_task_failed(i, "Unknown task type")
                    /\ UNCHANGED <<sessions, containers>>
    /\ UNCHANGED <<now, messages, api, health, idle>>
    /\ UNCHANGED rbac_vars

(* a running container exits on its own *)
ContainerExits(c) ==
    /\ is_container_running(c)
    /\ containers' = [containers EXCEPT ![c].status = "exited"]
    /\ UNCHANGED <<now, sessions, tasks, messages, api, worker, health, idle>>
    /\ UNCHANGED rbac_vars


(***************************************************************************)
(* handlers/sessions.rs: update_session_state (PUT /sessions/{id}/state)   *)
(***************************************************************************)
RequestContainerIds == {NULL, 1}

UpdateRequests(id) ==
    { UpdateSessionStateRequest(st, c, IF c = NULL THEN NULL ELSE id,
                                IF st = "Error" THEN "user" ELSE NoReason) :
        st \in SessionState, c \in RequestContainerIds }

(* the handler's own read of the session and the ownership / permission check *)
update_session_state(p, caller, id, req) ==
    /\ api[p].pc = "idle"
    /\ Len(tasks) + reserved < MaxTasks
    /\ IF ~find_by_id(id)
       THEN Reply(p, caller, "update_session_state", id, "NOT_FOUND")
       ELSE LET session == sessions[id]
                can_update == check_api_permission(caller, SESSION_UPDATE, session.workspace)
            IN IF ~can_update /\ session.created_by # username(caller)
               THEN Reply(p, caller, "update_session_state", id, "FORBIDDEN")
               ELSE api' = [api EXCEPT ![p] =
                        [IdleCall EXCEPT !.pc = "put_check", !.op = "update_session_state",
                                         !.caller = caller, !.sid = id,
                                         !.old_state = session.state, !.req = req]]
    /\ UNCHANGED <<now, sessions, tasks, messages, containers, worker, health, idle>>
    /\ UNCHANGED rbac_vars

(* Session::update_state: find_by_id and can_transition_to *)
put_check(p) ==
    /\ api[p].pc = "put_check"
    /\ LET r == update_state_check(api[p].sid, api[p].req)
       IN CASE r = "none" -> Done(p, "update_session_state", api[p].sid, "NOT_FOUND")
            [] r = "invalid" -> Done(p, "update_session_state", api[p].sid, "BAD_REQUEST")
            [] OTHER -> api' = [api EXCEPT ![p].pc = "put_write"]
    /\ UNCHANGED <<now, sessions, tasks, messages, containers, worker, health, idle>>
    /\ UNCHANGED rbac_vars

(* Session::update_state: the UPDATE *)
put_write(p) ==
    /\ api[p].pc = "put_write"
    /\ sessions' = [sessions EXCEPT
            ![api[p].sid] = update_state_write(sessions[api[p].sid], api[p].req, now)]
    /\ api' = [api EXCEPT ![p].pc = "put_tasks"]
    /\ UNCHANGED <<now, tasks, messages, containers, worker, health, idle>>
    /\ UNCHANGED rbac_vars

(* match (old_state, new_state): the task rows of the transition *)
transition_tasks(old_state, new_state, id, t) ==
    CASE old_state = "Ready" /\ new_state = "Idle" -> <<Task("stop_session", id, t)>>
      [] old_state = "Idle" /\ new_state = "Ready" -> <<Task("reactivate_session", id, t)>>
      [] OTHER -> <<>>

put_tasks(p) ==
    /\ api[p].pc = "put_tasks"
    /\ tasks' = tasks \o transition_tasks(api[p].old_state, api[p].req.state, api[p].sid, now)
    /\ Done(p, "update_session_state", api[p].sid, "OK")
    /\ UNCHANGED <<now, sessions, messages, containers, worker, health, idle>>
    /\ UNCHANGED rbac_vars

(***************************************************************************)
(* handlers/sessions.rs: delete_session (DELETE /sessions/{id})            *)
(***************************************************************************)
(* Session::delete writing nothing *)
delete_skipped(row, t) == row

(* Session::delete: UPDATE sessions SET deleted_at = ... WHERE deleted_at IS NULL *)
delete(row, t) ==
    IF row.exists /\ row.deleted_at = NULL THEN [row EXCEPT !.deleted_at = t] ELSE row

delete_session(p, caller, id) ==
    /\ api[p].pc = "idle"
    /\ find_by_id(id) => Len(tasks) + reserved < MaxTasks
    /\ IF ~find_by_id(id)
       THEN /\ Reply(p, caller, "delete_session", id, "NOT_FOUND")
            /\ UNCHANGED <<sessions, tasks>>
       ELSE LET session == sessions[id]
                can_delete == check_api_permission(caller, SESSION_DELETE, session.workspace)
            IN IF ~can_delete /\ session.created_by # username(caller)
               THEN /\ Reply(p, caller, "delete_session", id, "FORBIDDEN")
                    /\ UNCHANGED <<sessions, tasks>>
               ELSE /\ tasks' = Append(tasks, Task("destroy_session", id, now))
                    /\ sessions' = [sessions EXCEPT ![id] = delete(session, now)]
                    /\ Reply(p, caller, "delete_session", id, "OK")
    /\ UNCHANGED <<now, messages, containers, worker, health, idle>>
    /\ UNCHANGED rbac_vars

(***************************************************************************)
(* handlers/sessions.rs: get_session (GET /sessions/{id}) and              *)
(* update_session (PUT /sessions/{id})                                     *)
(***************************************************************************)
(* Session::find_all(workspace, created_by): the four SELECTs, each with    *)
(* deleted_at IS NULL                                                      *)
find_all_filtered(workspace, created_by) ==
    { id \in SessionIds :
        /\ sessions[id].exists
        /\ sessions[id].deleted_at = NULL
        /\ (workspace # NoWorkspace => sessions[id].workspace = workspace)
        /\ (created_by # NoName => sessions[id].created_by = created_by) }

(* PermissionContext::new("api", "sessions", "list-all") *)
SESSION_LIST_ALL == PermissionContext("api", "sessions", "list-all", NoName, NoWorkspace)

(* list_sessions (GET /sessions?workspace=&created_by=&state=): the answer *)
list_sessions(caller, workspace, created_by, state) ==
    IF /\ created_by # NoName
       /\ created_by # username(caller)
       /\ ~check_permission(caller, SESSION_LIST_ALL)
    THEN [status |-> "FORBIDDEN", rows |-> {}]
    ELSE [status |-> "OK",
          rows |-> { id \in find_all_filtered(workspace,
                                  IF created_by # NoName THEN created_by ELSE username(caller)) :
                       state # "NONE" => sessions[id].state = state }]

(* PermissionContext::new("api", "sessions", "get-all") *)
SESSION_GET_ALL == PermissionContext("api", "sessions", "get-all", NoName, NoWorkspace)

get_session(p, caller, id) ==
    /\ api[p].pc = "idle"
    /\ IF ~find_by_id(id)
       THEN Reply(p, caller, "get_session", id, "NOT_FOUND")
       ELSE IF /\ sessions[id].created_by # username(caller)
               /\ ~check_permission(caller, SESSION_GET_ALL)
       THEN Reply(p, caller, "get_session", id, "FORBIDDEN")
       ELSE Reply(p, caller, "get_session", id, "OK")
    /\ UNCHANGED <<now, sessions, tasks, messages, containers, worker, health, idle>>
    /\ UNCHANGED rbac_vars

(* UpdateSessionRequest, of which the model keeps waiting_timeout_seconds *)
UpdateSessionRequests == { [waiting_timeout_seconds |-> x] : x \in {NULL, 2} }

(* Session::update: UPDATE sessions SET ... WHERE id = $n AND deleted_at IS NULL *)
update(row, req) ==
    IF row.exists /\ row.deleted_at = NULL
    THEN [row EXCEPT !.waiting_timeout_seconds = req.waiting_timeout_seconds]
    ELSE row

update_session(p, caller, id, req) ==
    /\ api[p].pc = "idle"
    /\ IF ~find_by_id(id)
       THEN /\ Reply(p, caller, "update_session", id, "NOT_FOUND")
            /\ UNCHANGED sessions
       ELSE LET session == sessions[id]
                can_update == check_api_permission(caller, SESSION_UPDATE, session.workspace)
            IN IF ~can_update /\ session.created_by # username(caller)
               THEN /\ Reply(p, caller, "update_session", id, "FORBIDDEN")
                    /\ UNCHANGED sessions
               ELSE IF req.waiting_timeout_seconds = NULL
               THEN /\ Reply(p, caller, "update_session", id, "BAD_REQUEST")
                    /\ UNCHANGED sessions
               ELSE /\ sessions' = [sessions EXCEPT ![id] = update(session, req)]
                    /\ Reply(p, caller, "update_session", id, "OK")
    /\ UNCHANGED <<now, tasks, messages, containers, worker, health, idle>>
    /\ UNCHANGED rbac_vars


(***************************************************************************)
(* docker/container.rs and docker/lifecycle.rs, as the message handler     *)
(* reaches them                                                            *)
(***************************************************************************)
(* ContainerManager::restart_session_container: stop if running, then      *)
(* start. The two engine calls are stop_container and, here, the start     *)
(* that ends the restart.                                                   *)
stop_container(c) ==
    [containers EXCEPT ![c].status = "exited"]

restart_session_container(c) ==
    [containers EXCEPT ![c].status = "running"]

(* ContainerManager::create_session_container: the engine refuses a name   *)
(* in use and may fail either call                                         *)
create_session_container_outcomes(id) == create_container_outcomes(id)

(* the message handler's UPDATE without its condition on the state *)
mark_busy_unconditional(row, t) ==
    IF row.exists THEN [row EXCEPT !.state = "Busy", !.last_activity_at = t] ELSE row

(* the message handler's UPDATE left out *)
mark_busy_skipped(row, t) == row

(* the UPDATE of the message handler:                                      *)
(* SET state = 'BUSY', last_activity_at = ... WHERE id = $1 AND state = 'READY' *)
mark_busy(row, t) ==
    IF row.exists /\ row.state = "Ready"
    THEN [row EXCEPT !.state = "Busy", !.last_activity_at = t]
    ELSE row

(* the completion handler's UPDATE left out *)
mark_ready_skipped(row, t) == row

(* the UPDATE of the completion handler:                                   *)
(* SET state = 'READY', last_activity_at = ... WHERE id = $1 AND state = 'BUSY' *)
mark_ready(row, t) ==
    IF row.exists /\ row.state = "Busy"
    THEN [row EXCEPT !.state = "Ready", !.last_activity_at = t]
    ELSE row

(***************************************************************************)
(* handlers/messages.rs: create_message (POST /sessions/{id}/messages)     *)
(***************************************************************************)
MessageRequests ==
    { [role |-> "User", agent_id |-> NULL],
      [role |-> "Agent", agent_id |-> 1],
      [role |-> "Agent", agent_id |-> NULL] }

(* the handler with the Idle branch left out *)
message_route_no_reactivation(state) ==
    CASE state \in {"Idle", "Ready"} -> "msg_busy"
      [] OTHER -> "msg_persist"

(* where the handler goes after loading the session *)
message_route(state) ==
    CASE state = "Idle" -> "reactivate"
      [] state = "Ready" -> "msg_busy"
      [] OTHER -> "msg_persist"

(* the handler without its validation of the request *)
agent_id_missing_unchecked(msg) == FALSE

(* req.role == MessageRole::Agent && req.agent_id.is_none() *)
agent_id_missing(msg) == msg.role = "Agent" /\ msg.agent_id = NULL

create_message(p, caller, id, msg) ==
    /\ api[p].pc = "idle"
    /\ Len(messages) + reserved_messages < MaxMessages
    /\ IF agent_id_missing(msg)
       THEN Reply(p, caller, "create_message", id, "BAD_REQUEST")
       ELSE IF ~find_by_id(id)
       THEN Reply(p, caller, "create_message", id, "NOT_FOUND")
       ELSE api' = [api EXCEPT ![p] =
                [IdleCall EXCEPT !.pc = message_route(sessions[id].state),
                                 !.op = "create_message", !.caller = caller, !.sid = id,
                                 !.old_state = sessions[id].state, !.msg = msg]]
    /\ UNCHANGED <<now, sessions, tasks, messages, containers, worker, health, idle>>
    /\ UNCHANGED rbac_vars

(* ContainerLifecycleManager::reactivate_session up to its update_state call *)
reactivate_session(p) ==
    /\ api[p].pc = "reactivate"
    /\ LET id == api[p].sid
           session == sessions[id]
       IN IF ~find_by_id(id) \/ session.state # "Idle"
          THEN /\ Done(p, "create_message", id, "INTERNAL_ERROR")
               /\ UNCHANGED containers
          ELSE IF session.container_id # NULL
          THEN IF ~container_exists(session.container_id)
               THEN /\ Done(p, "create_message", id, "INTERNAL_ERROR")
                    /\ UNCHANGED containers
               ELSE IF is_container_running(session.container_id)
               THEN /\ containers' = stop_container(session.container_id)
                    /\ api' = [api EXCEPT ![p].pc = "restart",
                                          ![p].req = UpdateSessionStateRequest("Ready",
                                               session.container_id,
                                               session.persistent_volume_id, NoReason)]
               ELSE /\ containers' = restart_session_container(session.container_id)
                    /\ api' = [api EXCEPT ![p].pc = "reactivate_check",
                                          ![p].req = UpdateSessionStateRequest("Ready",
                                               session.container_id,
                                               session.persistent_volume_id, NoReason)]
          ELSE \E outcome \in create_session_container_outcomes(id) :
                  /\ containers' = create_container(id, outcome)
                  /\ IF outcome = "ok"
                     THEN api' = [api EXCEPT ![p].pc = "reactivate_check",
                                             ![p].req = UpdateSessionStateRequest("Ready",
                                                  next_id, id, NoReason)]
                     ELSE Done(p, "create_message", id, "INTERNAL_ERROR")
    /\ UNCHANGED <<now, sessions, tasks, messages, worker, health, idle>>
    /\ UNCHANGED rbac_vars

(* restart_session_container after its stop call: start_container, which   *)
(* fails when the container is gone                                        *)
restart_start(p) ==
    /\ api[p].pc = "restart"
    /\ IF container_exists(api[p].req.container_id)
       THEN /\ containers' = restart_session_container(api[p].req.container_id)
            /\ api' = [api EXCEPT ![p].pc = "reactivate_check"]
       ELSE /\ Done(p, "create_message", api[p].sid, "INTERNAL_ERROR")
            /\ UNCHANGED containers
    /\ UNCHANGED <<now, sessions, tasks, messages, worker, health, idle>>
    /\ UNCHANGED rbac_vars

(* the update_state call of the reactivation: read and validate *)
reactivate_check(p) ==
    /\ api[p].pc = "reactivate_check"
    /\ LET r == update_state_check(api[p].sid, api[p].req)
       IN CASE r = "none" -> api' = [api EXCEPT ![p].pc = "msg_busy"]
            [] r = "invalid" -> Done(p, "create_message", api[p].sid, "INTERNAL_ERROR")
            [] OTHER -> api' = [api EXCEPT ![p].pc = "reactivate_write"]
    /\ UNCHANGED <<now, sessions, tasks, messages, containers, worker, health, idle>>
    /\ UNCHANGED rbac_vars

(* the update_state call of the reactivation: the UPDATE *)
reactivate_write(p) ==
    /\ api[p].pc = "reactivate_write"
    /\ sessions' = [sessions EXCEPT
            ![api[p].sid] = update_state_write(sessions[api[p].sid], api[p].req, now)]
    /\ api' = [api EXCEPT ![p].pc = "msg_busy"]
    /\ UNCHANGED <<now, tasks, messages, containers, worker, health, idle>>
    /\ UNCHANGED rbac_vars

msg_busy(p) ==
    /\ api[p].pc = "msg_busy"
    /\ sessions' = [sessions EXCEPT ![api[p].sid] = mark_busy(sessions[api[p].sid], now)]
    /\ api' = [api EXCEPT ![p].pc = "msg_persist"]
    /\ UNCHANGED <<now, tasks, messages, containers, worker, health, idle>>
    /\ UNCHANGED rbac_vars

(* SessionMessage::create *)
Message(session_id, msg, t) ==
    [session_id |-> session_id, role |-> msg.role, agent_id |-> msg.agent_id, created_at |-> t]

msg_persist(p) ==
    /\ api[p].pc = "msg_persist"
    /\ messages' = Append(messages, Message(api[p].sid, api[p].msg, now))
    /\ api' = [api EXCEPT ![p] = [IdleCall EXCEPT !.op = "create_message",
                                                  !.caller = api[p].caller,
                                                  !.sid = api[p].sid,
                                                  !.old_state = api[p].old_state,
                                                  !.status = "OK"]]
    /\ UNCHANGED <<now, sessions, tasks, containers, worker, health, idle>>
    /\ UNCHANGED rbac_vars

(***************************************************************************)
(* handlers/messages.rs: clear_messages (DELETE /sessions/{id}/messages)   *)
(***************************************************************************)
(* SessionMessage::delete_by_session *)
delete_by_session(id) == SelectSeq(messages, LAMBDA m : m.session_id # id)

clear_messages(p, caller, id) ==
    /\ api[p].pc = "idle"
    /\ IF ~find_by_id(id)
       THEN /\ Reply(p, caller, "clear_messages", id, "NOT_FOUND")
            /\ UNCHANGED messages
       ELSE /\ messages' = delete_by_session(id)
            /\ Reply(p, caller, "clear_messages", id, "OK")
    /\ UNCHANGED <<now, sessions, tasks, containers, worker, health, idle>>
    /\ UNCHANGED rbac_vars

(***************************************************************************)
(* handlers/session_complete.rs: POST /sessions/{id}/complete              *)
(***************************************************************************)
complete_session_processing(p, caller, id) ==
    /\ api[p].pc = "idle"
    /\ IF ~find_by_id(id)
       THEN Reply(p, caller, "complete", id, "NOT_FOUND")
       ELSE IF sessions[id].state # "Busy"
       THEN Reply(p, caller, "complete", id, "BAD_REQUEST")
       ELSE api' = [api EXCEPT ![p] =
                [IdleCall EXCEPT !.pc = "complete_write", !.op = "complete",
                                 !.caller = caller, !.sid = id,
                                 !.old_state = sessions[id].state]]
    /\ UNCHANGED <<now, sessions, tasks, messages, containers, worker, health, idle>>
    /\ UNCHANGED rbac_vars

complete_write(p) ==
    /\ api[p].pc = "complete_write"
    /\ sessions' = [sessions EXCEPT ![api[p].sid] = mark_ready(sessions[api[p].sid], now)]
    /\ Done(p, "complete", api[p].sid, "OK")
    /\ UNCHANGED <<now, tasks, messages, containers, worker, health, idle>>
    /\ UNCHANGED rbac_vars


(***************************************************************************)
(* docker/lifecycle.rs: health_check_loop                                  *)
(***************************************************************************)
(* Session::find_all(db, None, None): the rows WHERE deleted_at IS NULL,   *)
(* of which the loop body acts on those that are Ready or Busy and have a  *)
(* container_id                                                            *)
RECURSIVE rows_of(_)
rows_of(S) ==
    IF S = {} THEN <<>>
    ELSE LET id == CHOOSE x \in S : \A y \in S : x <= y
         IN <<[id |-> id, container_id |-> sessions[id].container_id,
               persistent_volume_id |-> sessions[id].persistent_volume_id]>>
            \o rows_of(S \ {id})

(* the loop acting on every live session, whatever its state *)
find_all_any_state == rows_of({ id \in SessionIds : find_by_id(id) })

find_all ==
    rows_of({ id \in SessionIds : /\ find_by_id(id)
                                  /\ sessions[id].state \in {"Ready", "Busy"}
                                  /\ sessions[id].container_id # NULL })

(* the conversion with a stopped container passing for a running one *)
ContainerStatus_stopped_as_running(status) ==
    CASE status = "created" -> "Creating"
      [] status = "running" -> "Running"
      [] status = "exited" -> "Running"
      [] OTHER -> "Removed"

(* impl From<ContainerStateStatusEnum> for ContainerStatus *)
ContainerStatus(status) ==
    CASE status = "created" -> "Creating"
      [] status = "running" -> "Running"
      [] status = "exited" -> "Stopped"
      [] OTHER -> "Removed"

(* format!("Container status: {:?}", status) *)
status_reason(status) ==
    CASE status = "Creating" -> "Container status: Creating"
      [] status = "Running" -> "Container status: Running"
      [] status = "Stopped" -> "Container status: Stopped"
      [] status = "Failed" -> "Container status: Failed"
      [] OTHER -> "Container status: Removed"

(* interval.tick() and the find_all read *)
health_tick ==
    /\ health.pc = "idle"
    /\ health' = IF find_all = <<>> THEN IdleHealth
                 ELSE [IdleHealth EXCEPT !.pc = "inspect", !.snapshot = find_all]
    /\ UNCHANGED <<now, sessions, tasks, messages, containers, api, worker, idle>>
    /\ UNCHANGED rbac_vars

(* what the loop does once the current row is dealt with *)
health_next(rest) ==
    IF rest = <<>> THEN IdleHealth ELSE [IdleHealth EXCEPT !.pc = "inspect", !.snapshot = rest]

(* the loop body up to the update_state call: get_container_status *)
health_inspect ==
    /\ health.pc = "inspect"
    /\ LET session == Head(health.snapshot)
           rest == Tail(health.snapshot)
       IN IF /\ container_exists(session.container_id)
             /\ ContainerStatus(containers[session.container_id].status) # "Running"
          THEN health' = [health EXCEPT !.pc = "health_check",
                             !.req = UpdateSessionStateRequest("Error", session.container_id,
                                        session.persistent_volume_id,
                                        status_reason(ContainerStatus(
                                            containers[session.container_id].status)))]
          ELSE health' = health_next(rest)
    /\ UNCHANGED <<now, sessions, tasks, messages, containers, api, worker, idle>>
    /\ UNCHANGED rbac_vars

(* the update_state call of the loop: read and validate *)
health_check ==
    /\ health.pc = "health_check"
    /\ IF update_state_check(Head(health.snapshot).id, health.req) = "ok"
       THEN health' = [health EXCEPT !.pc = "health_write"]
       ELSE health' = health_next(Tail(health.snapshot))
    /\ UNCHANGED <<now, sessions, tasks, messages, containers, api, worker, idle>>
    /\ UNCHANGED rbac_vars

(* the update_state call of the loop: the UPDATE *)
health_write ==
    /\ health.pc = "health_write"
    /\ LET id == Head(health.snapshot).id
       IN sessions' = [sessions EXCEPT ![id] = update_state_write(sessions[id], health.req, now)]
    /\ health' = health_next(Tail(health.snapshot))
    /\ UNCHANGED <<now, tasks, messages, containers, api, worker, idle>>
    /\ UNCHANGED rbac_vars

(***************************************************************************)
(* docker/lifecycle.rs: idle_timeout_loop                                  *)
(***************************************************************************)
(* the rows the WHERE clause of find_waiting_sessions_to_timeout selects *)
waiting_sessions_to_timeout(t) ==
    { id \in SessionIds :
        /\ sessions[id].exists
        /\ sessions[id].state = "Ready"
        /\ sessions[id].waiting_timeout_seconds # NULL
        /\ sessions[id].last_activity_at # NULL
        /\ sessions[id].last_activity_at + sessions[id].waiting_timeout_seconds < t
        /\ sessions[id].deleted_at = NULL }

(* the columns of the SELECT list, and the fields FromRow reads for Session *)
timeout_query_columns ==
    {"id", "name", "starting_prompt", "state", "waiting_timeout_seconds", "container_id",
     "persistent_volume_id", "created_by", "parent_session_id", "created_at", "started_at",
     "last_activity_at", "terminated_at", "termination_reason", "metadata", "deleted_at"}
session_fields == timeout_query_columns \cup {"workspace"}

(* the query decoding its rows, and matching Busy sessions as well *)
find_waiting_sessions_to_timeout_busy(t) ==
    [ok |-> TRUE,
     rows |-> { id \in SessionIds :
                 /\ sessions[id].exists
                 /\ sessions[id].state \in {"Ready", "Busy"}
                 /\ sessions[id].waiting_timeout_seconds # NULL
                 /\ sessions[id].last_activity_at # NULL
                 /\ sessions[id].last_activity_at + sessions[id].waiting_timeout_seconds < t
                 /\ sessions[id].deleted_at = NULL }]

(* Session::find_waiting_sessions_to_timeout: decoding a row fails when a  *)
(* field of Session has no column; an empty result decodes nothing         *)
find_waiting_sessions_to_timeout(t) ==
    IF waiting_sessions_to_timeout(t) # {} /\ ~(session_fields \subseteq timeout_query_columns)
    THEN [ok |-> FALSE, rows |-> {}]
    ELSE [ok |-> TRUE, rows |-> waiting_sessions_to_timeout(t)]

(* stop_session_container, then update_state to Idle, for one row of the result *)
idle_timeout_row(row, t) ==
    IF row.container_id # NULL /\ can_transition_to(row.state, "Idle") /\ row.deleted_at = NULL
    THEN update_state_write(row,
            UpdateSessionStateRequest("Idle", row.container_id, row.persistent_volume_id,
                                      NoReason), t)
    ELSE row

(* one tick of the loop: the interval fires once per clock value *)
idle_timeout_loop ==
    /\ idle.at < now
    /\ LET found == find_waiting_sessions_to_timeout(now)
       IN /\ idle' = [at |-> now, last |-> IF found.ok THEN "ok" ELSE "fetch_failed"]
          /\ sessions' = [id \in SessionIds |->
                            IF id \in found.rows THEN idle_timeout_row(sessions[id], now)
                            ELSE sessions[id]]
          /\ containers' = [c \in ContainerIds |->
                            IF /\ \E id \in found.rows : sessions[id].container_id = c
                               /\ is_container_running(c)
                            THEN [containers[c] EXCEPT !.status = "exited"]
                            ELSE containers[c]]
    /\ UNCHANGED <<now, tasks, messages, api, worker, health>>
    /\ UNCHANGED rbac_vars


(***************************************************************************)
(* handlers/roles.rs, handlers/role_bindings.rs, handlers/agents.rs        *)
(***************************************************************************)
RoleNames == {"dev"}
BindingRoleNames == {"dev", "ghost"}
BindingPrincipals == {AliceSub, AliceSA}
BindingWorkspaces == Workspaces \cup {NoWorkspace}

(* the outcome of a guarded request, as the handler maps it *)
Authz(principal, requirement, workspace, op) ==
    [principal |-> principal, requirement |-> requirement, workspace |-> workspace,
     allowed |-> check_api_permission(principal, requirement, workspace), op |-> op]

(* POST /roles *)
create_role(caller, role_name, rules) ==
    /\ Cardinality(roles) < MaxRoles
    /\ authz' = Authz(caller, ROLE_CREATE, NoWorkspace, "create_role")
    /\ IF /\ check_api_permission(caller, ROLE_CREATE, NoWorkspace)
          /\ ~\E role \in roles : role.name = role_name
       THEN roles' = roles \cup {[name |-> role_name, rules |-> rules]}
       ELSE roles' = roles
    /\ UNCHANGED role_bindings
    /\ UNCHANGED authn_vars
    /\ UNCHANGED lifecycle_vars

(* Uuid::new_v4(): an id no row has *)
new_binding_id ==
    CHOOSE i \in 1..(Cardinality(role_bindings) + 1) : \A rb \in role_bindings : rb.id # i

(* POST /role-bindings *)
create_role_binding(caller, role_name, principal, workspace) ==
    /\ Cardinality(role_bindings) < MaxBindings
    /\ authz' = Authz(caller, ROLE_BINDING_CREATE, workspace, "create_role_binding")
    /\ IF check_api_permission(caller, ROLE_BINDING_CREATE, workspace)
       THEN role_bindings' = role_bindings \cup
                {[id |-> new_binding_id, role_name |-> role_name,
                  principal_name |-> name(principal),
                  principal_type |-> principal_type_str(subject_type(principal)),
                  workspace |-> workspace]}
       ELSE role_bindings' = role_bindings
    /\ UNCHANGED roles
    /\ UNCHANGED authn_vars
    /\ UNCHANGED lifecycle_vars

(* the {id} of the path: a UUID, or any other string *)
BindingPaths ==
    { [uuid |-> TRUE, id |-> i, name |-> NoName] : i \in 1..MaxBindings }
        \cup { [uuid |-> FALSE, id |-> NULL, name |-> n] : n \in BindingRoleNames }

(* AppState::delete_role_binding: DELETE FROM role_bindings WHERE          *)
(* role_name = $1 AND workspace IS NOT DISTINCT FROM $2                    *)
delete_role_binding_rows(role_name, workspace) ==
    { rb \in role_bindings : ~(rb.role_name = role_name /\ rb.workspace = workspace) }

(* DELETE /role-bindings/{id} *)
delete_role_binding(caller, path) ==
    /\ authz' = Authz(caller, ROLE_BINDING_DELETE, NoWorkspace,
                      IF path.uuid THEN "delete_role_binding" ELSE "delete_role_binding_by_name")
    /\ IF ~check_api_permission(caller, ROLE_BINDING_DELETE, NoWorkspace)
       THEN role_bindings' = role_bindings
       ELSE IF path.uuid
       THEN IF \E rb \in role_bindings : rb.id = path.id
            THEN LET binding == CHOOSE rb \in role_bindings : rb.id = path.id
                 IN role_bindings' = delete_role_binding_rows(binding.role_name, binding.workspace)
            ELSE role_bindings' = role_bindings
       ELSE role_bindings' = delete_role_binding_rows(path.name, NoWorkspace)
    /\ UNCHANGED roles
    /\ UNCHANGED authn_vars
    /\ UNCHANGED lifecycle_vars

(* GET /agents?workspace=... up to the permission check *)
list_agents(caller, target_workspace) ==
    /\ authz' = Authz(caller, AGENT_LIST, target_workspace, "list_agents")
    /\ UNCHANGED <<roles, role_bindings>>
    /\ UNCHANGED authn_vars
    /\ UNCHANGED lifecycle_vars

(***************************************************************************)
(* auth.rs, rest/auth.rs, routes.rs and middleware.rs: tokens and the      *)
(* authentication middleware                                               *)
(***************************************************************************)
MaxTokens == 2
(* the 24 hours of create_service_account_jwt / create_subject_jwt, the    *)
(* unit of the clock in the authentication specification                   *)
TokenLifetime == 1

create_service_account_jwt(user, t) == RbacClaims(user, "ServiceAccount", t + TokenLifetime)
create_subject_jwt(subject_name, t) == RbacClaims(subject_name, "Subject", t + TokenLifetime)

(* decode_jwt: signature and exp, as Validation::default() checks them *)
decode_jwt(token, t) == token.signed /\ token.exp >= t

(* create_router: the routes of the model; auth_middleware is layered on   *)
(* the protected ones only                                                 *)
PublicRoutes == {"/auth/internal", "/auth/external"}
ProtectedRoutes == {"/service-accounts"}

(* auth_middleware: paths it lets through without a token *)
skips_auth(path) == path \in {"/health", "/version", "/auth/internal", "/auth/external", "/auth/me"}

(* get_service_account: SELECT ... FROM service_accounts WHERE name = $1 *)
get_service_account(user) ==
    IF user \in AccountNames /\ service_accounts[user].exists
    THEN [found |-> TRUE, active |-> service_accounts[user].active]
    ELSE [found |-> FALSE, active |-> FALSE]

(* auth_middleware on a protected route: the principal of the request, or  *)
(* the rejection                                                           *)
auth_middleware(path, token) ==
    IF path \in PublicRoutes \/ skips_auth(path)
    THEN [status |-> "pass", principal |-> Anonymous]
    ELSE IF token = NoToken \/ ~decode_jwt(token, now)
    THEN [status |-> "UNAUTHORIZED", principal |-> Anonymous]
    ELSE IF token.sub_type = "ServiceAccount"
    THEN IF get_service_account(token.sub).found
         THEN [status |-> "pass", principal |-> [kind |-> "ServiceAccount", name |-> token.sub]]
         ELSE [status |-> "UNAUTHORIZED", principal |-> Anonymous]
    ELSE [status |-> "pass", principal |-> [kind |-> "Subject", name |-> token.sub]]

(* authenticate_service_account *)
authenticate_service_account(user, pass_valid) ==
    LET account == get_service_account(user)
    IN account.found /\ account.active /\ pass_valid

(* the tokens a client may present: none, one it was issued, or one it     *)
(* signed itself                                                           *)
Forged == [RbacClaims("admin", "ServiceAccount", MaxTime + TokenLifetime) EXCEPT !.signed = FALSE]
Bearers == tokens \cup {NoToken, Forged}

Answer(route, bearer, status, ran, issued) ==
    [route |-> route, bearer |-> bearer, status |-> status, ran |-> ran, issued |-> issued]

(* POST /auth/internal *)
login(user, pass_valid) ==
    /\ Cardinality(tokens) < MaxTokens
    /\ IF authenticate_service_account(user, pass_valid)
       THEN /\ tokens' = tokens \cup {create_service_account_jwt(user, now)}
            /\ authn' = Answer("/auth/internal", NoToken, "OK", TRUE,
                                create_service_account_jwt(user, now))
       ELSE /\ tokens' = tokens
            /\ authn' = Answer("/auth/internal", NoToken, "UNAUTHORIZED", TRUE, NoToken)
    /\ UNCHANGED service_accounts
    /\ UNCHANGED binding_vars
    /\ UNCHANGED lifecycle_vars

(* POST /auth/external *)
ExternalSubjects == {"alice", "admin"}

external_login(bearer, subject) ==
    /\ Cardinality(tokens) < MaxTokens
    /\ auth_middleware("/auth/external", bearer).status = "pass"
    /\ tokens' = tokens \cup {create_subject_jwt(subject, now)}
    /\ authn' = Answer("/auth/external", bearer, "OK", TRUE, create_subject_jwt(subject, now))
    /\ UNCHANGED service_accounts
    /\ UNCHANGED binding_vars
    /\ UNCHANGED lifecycle_vars

SERVICE_ACCOUNT_CREATE == PermissionRequirement("api", "service-accounts", "create")
SERVICE_ACCOUNT_UPDATE == PermissionRequirement("api", "service-accounts", "update")
SERVICE_ACCOUNT_DELETE == PermissionRequirement("api", "service-accounts", "delete")

(* a request to a service-account route: the middleware, the permission    *)
(* check of the handler and, past both, the handler's write                *)
service_account_request(bearer, requirement, found, write) ==
    LET auth == auth_middleware("/service-accounts", bearer)
    IN /\ IF auth.status # "pass"
          THEN /\ authn' = Answer("/service-accounts", bearer, auth.status, FALSE, NoToken)
               /\ UNCHANGED service_accounts
          ELSE IF ~check_api_permission(auth.principal, requirement, NoWorkspace)
          THEN /\ authn' = Answer("/service-accounts", bearer, "FORBIDDEN", TRUE, NoToken)
               /\ UNCHANGED service_accounts
          ELSE IF ~found
          THEN /\ authn' = Answer("/service-accounts", bearer, "REFUSED", TRUE, NoToken)
               /\ UNCHANGED service_accounts
          ELSE /\ authn' = Answer("/service-accounts", bearer, "OK", TRUE, NoToken)
               /\ service_accounts' = write
       /\ UNCHANGED tokens
       /\ UNCHANGED binding_vars
       /\ UNCHANGED lifecycle_vars

(* POST /service-accounts: Conflict when the name is taken *)
create_service_account(bearer, user) ==
    service_account_request(bearer, SERVICE_ACCOUNT_CREATE,
        ~get_service_account(user).found,
        [service_accounts EXCEPT ![user] = [exists |-> TRUE, active |-> TRUE]])

(* PUT /service-accounts/{id} with active in the body *)
update_service_account(bearer, id, active) ==
    service_account_request(bearer, SERVICE_ACCOUNT_UPDATE,
        get_service_account(id).found,
        [service_accounts EXCEPT ![id].active = active])

(* DELETE /service-accounts/{id} *)
delete_service_account(bearer, id) ==
    service_account_request(bearer, SERVICE_ACCOUNT_DELETE,
        get_service_account(id).found,
        [service_accounts EXCEPT ![id] = NoAccount])

(***************************************************************************)
(* Specifications                                                          *)
(***************************************************************************)
(* a request arrives, the worker polls, a loop ticks *)
Begin ==
    \/ \E p \in ApiProcs, caller \in Creators, id \in SessionIds,
          workspace \in SessionWorkspaces, timeout \in TimeoutChoices :
             create_session(p, caller, id, workspace, timeout)
    \/ \E p \in ApiProcs, caller \in Callers, id \in SessionIds :
          \/ \E req \in UpdateRequests(id) : update_session_state(p, caller, id, req)
          \/ delete_session(p, caller, id)
    \/ \E p \in ApiProcs, caller \in MessageCallers, id \in SessionIds :
          \/ \E msg \in MessageRequests : create_message(p, caller, id, msg)
          \/ complete_session_processing(p, caller, id)
    \/ \E w \in MainWorker : fetch_pending_tasks(w)
    \/ health_tick
    \/ idle_timeout_loop

(* something in flight takes its next step *)
Step ==
    \/ \E p \in ApiProcs :
          \/ put_check(p)
          \/ put_write(p)
          \/ put_tasks(p)
          \/ reactivate_session(p)
          \/ restart_start(p)
          \/ reactivate_check(p)
          \/ reactivate_write(p)
          \/ msg_busy(p)
          \/ msg_persist(p)
          \/ complete_write(p)
    \/ \E w \in MainWorker : process_task(w)
    \/ health_inspect
    \/ health_check
    \/ health_write

(* the container engine *)
Env == \E c \in ContainerIds : ContainerExits(c)

Next == Env \/ Begin \/ Step

Spec == Init /\ [][Next]_vars

(* requests served one at a time: a handler, the worker or a loop starts   *)
(* only when nothing else is in flight                                     *)
quiescent ==
    /\ \A p \in ApiProcs : api[p].pc = "idle"
    /\ \A w \in Workers : worker[w].pc = "idle"
    /\ health.pc = "idle"

SeqNext == Env \/ (quiescent /\ Begin) \/ Step

SpecSeq == Init /\ [][SeqNext]_vars

(* creation, messages, completion and the idle sweep, with the clock       *)
(* advancing                                                               *)
ClockNext ==
    \/ Tick
    \/ idle_timeout_loop
    \/ \E p \in ApiProcs, caller \in Creators, id \in SessionIds,
          workspace \in SessionWorkspaces, timeout \in TimeoutChoices :
             create_session(p, caller, id, workspace, timeout)
    \/ \E p \in ApiProcs, caller \in Callers, id \in SessionIds : delete_session(p, caller, id)
    \/ \E p \in ApiProcs, caller \in MessageCallers, id \in SessionIds :
          \/ \E msg \in MessageRequests : create_message(p, caller, id, msg)
          \/ complete_session_processing(p, caller, id)
    \/ \E p \in ApiProcs : msg_busy(p) \/ msg_persist(p) \/ complete_write(p)
    \/ \E w \in MainWorker : fetch_pending_tasks(w)
    \/ \E w \in MainWorker : process_task(w)

SpecClock == Init /\ [][ClockNext]_vars

(* the session, message and completion routes called by the owner and by    *)
(* another principal, while the administrator grants that principal a role *)
AccessCallers == {AliceSub, BobSub}
AccessRuleSets ==
    { {Rule({"api"}, {"sessions"}, {"update", "delete"}, NoNames)},
      {Rule({"api"}, {"sessions"}, {"get-all"}, NoNames)} }

AccessNext ==
    \/ \E p \in ApiProcs, caller \in Creators, id \in SessionIds,
          workspace \in SessionWorkspaces, timeout \in TimeoutChoices :
             create_session(p, caller, id, workspace, timeout)
    \/ \E p \in ApiProcs, caller \in AccessCallers, id \in SessionIds :
          \/ get_session(p, caller, id)
          \/ \E req \in UpdateSessionRequests : update_session(p, caller, id, req)
          \/ \E req \in UpdateRequests(id) : update_session_state(p, caller, id, req)
          \/ delete_session(p, caller, id)
    \/ \E p \in ApiProcs, caller \in MessageCallers, id \in SessionIds :
          \/ \E msg \in MessageRequests : create_message(p, caller, id, msg)
          \/ clear_messages(p, caller, id)
          \/ complete_session_processing(p, caller, id)
    \/ \E p \in ApiProcs :
          \/ put_check(p)
          \/ put_write(p)
          \/ put_tasks(p)
          \/ reactivate_session(p)
          \/ reactivate_check(p)
          \/ reactivate_write(p)
          \/ msg_busy(p)
          \/ msg_persist(p)
          \/ complete_write(p)
    \/ \E rules \in AccessRuleSets : create_role(AdminSA, "dev", rules)
    \/ \E workspace \in Workspaces : create_role_binding(AdminSA, "dev", BobSub, workspace)

SpecAccess == Init /\ [][AccessNext]_vars

(* two operator processes draining a queue that filled up while none was   *)
(* running: the owner created the session (create_session), set it Ready   *)
(* and then alternately Idle (stop_session) and Ready                      *)
(* (reactivate_session), and possibly deleted it last (destroy_session)    *)
QueueLen == 6

queued_type(i, last) ==
    IF i = 1 THEN "create_session"
    ELSE IF i = QueueLen /\ last = "destroy_session" THEN "destroy_session"
    ELSE IF i % 2 = 0 THEN "stop_session"
    ELSE "reactivate_session"

(* two requests per clock unit *)
queued_at(i) == (i + 1) \div 2

queued_session(last) ==
    LET puts == IF last = "destroy_session" THEN QueueLen - 1 ELSE QueueLen
        t == queued_at(puts)
    IN [create("team-a", NULL, "alice") EXCEPT
           !.state = IF puts % 2 = 0 THEN "Idle" ELSE "Ready",
           !.started_at = t,
           !.last_activity_at = t,
           !.deleted_at = IF last = "destroy_session" THEN queued_at(QueueLen) ELSE NULL]

InitQueue ==
    /\ now = queued_at(QueueLen)
    /\ \E last \in {"put", "destroy_session"} :
          /\ sessions = [id \in SessionIds |-> queued_session(last)]
          /\ tasks = [i \in 1..QueueLen |-> Task(queued_type(i, last), 1, queued_at(i))]
    /\ messages = <<>>
    /\ containers = [c \in ContainerIds |-> NoContainer]
    /\ api = [p \in ApiProcs |-> IdleCall]
    /\ worker = [w \in Workers |-> IdleWorker]
    /\ health = IdleHealth
    /\ idle = IdleSweep
    /\ roles = seed_roles
    /\ role_bindings = seed_bindings
    /\ authz = NoAuthz
    /\ service_accounts = seed_service_accounts
    /\ tokens = {}
    /\ authn = NoAuthn

WorkersNext ==
    \/ \E w \in Workers : fetch_pending_tasks(w)
    \/ \E w \in Workers : process_task(w)
    \/ \E c \in ContainerIds : ContainerExits(c)

(* SessionManager::run never stops polling and works through each batch *)
SpecWorkers ==
    /\ InitQueue
    /\ [][WorkersNext]_vars
    /\ \A w \in Workers : WF_vars(fetch_pending_tasks(w)) /\ WF_vars(process_task(w))

(* logins, the service-account routes and the clock *)
AuthnNext ==
    \/ Tick
    \/ \E user \in AccountNames, pass_valid \in BOOLEAN : login(user, pass_valid)
    \/ \E bearer \in Bearers, subject \in ExternalSubjects : external_login(bearer, subject)
    \/ \E bearer \in Bearers, user \in AccountNames : create_service_account(bearer, user)
    \/ \E bearer \in Bearers, id \in AccountNames, active \in BOOLEAN :
          update_service_account(bearer, id, active)
    \/ \E bearer \in Bearers, id \in AccountNames : delete_service_account(bearer, id)

SpecAuthn == Init /\ [][AuthnNext]_vars

RbacNext ==
    \/ \E caller \in Principals, role_name \in RoleNames, rules \in RuleSets :
          create_role(caller, role_name, rules)
    \/ \E caller \in Principals, role_name \in BindingRoleNames,
          principal \in BindingPrincipals, workspace \in BindingWorkspaces :
          create_role_binding(caller, role_name, principal, workspace)
    \/ \E caller \in Principals, target_workspace \in Workspaces :
          list_agents(caller, target_workspace)

SpecRbac == Init /\ [][RbacNext]_vars

(* role bindings created and deleted, bindings of the admin role included *)
BindingCallers == {AdminSA, AliceSub}
BindingsNext ==
    \/ \E caller \in BindingCallers, role_name \in BindingRoleNames \cup {"admin"},
          principal \in BindingPrincipals, workspace \in BindingWorkspaces :
          create_role_binding(caller, role_name, principal, workspace)
    \/ \E caller \in BindingCallers, path \in BindingPaths : delete_role_binding(caller, path)

SpecBindings == Init /\ [][BindingsNext]_vars


(* PUT /sessions/{id}/state with a body that names any container: the      *)
(* handler takes container_id from the request as it comes                  *)
ForeignContainerId == MaxContainers + 1
PutRequests(id) ==
    UpdateRequests(id) \cup
    { UpdateSessionStateRequest(st, ForeignContainerId, id,
                                IF st = "Error" THEN "user" ELSE NoReason) :
        st \in SessionState }

PutNext ==
    \/ \E p \in ApiProcs, caller \in Creators, id \in SessionIds,
          workspace \in SessionWorkspaces, timeout \in TimeoutChoices :
             create_session(p, caller, id, workspace, timeout)
    \/ \E p \in ApiProcs, caller \in Creators, id \in SessionIds :
          \E req \in PutRequests(id) : update_session_state(p, caller, id, req)
    \/ \E p \in ApiProcs : put_check(p) \/ put_write(p) \/ put_tasks(p)
    \/ \E w \in MainWorker : fetch_pending_tasks(w)
    \/ \E w \in MainWorker : process_task(w)

SpecPut == Init /\ [][PutNext]_vars


(* two update_state callers on one session, the PUT route and the health    *)
(* loop, and no other writer. They start where the worker's create_session  *)
(* task failed at the start call, leaving the container created, and the    *)
(* owner then set the session Ready with that container's id.               *)
raced_session ==
    [create("team-a", 1, "alice") EXCEPT
        !.state = "Ready", !.container_id = 1, !.persistent_volume_id = 1,
        !.started_at = 1, !.last_activity_at = 1]

raced_task ==
    [Task("create_session", 1, 1) EXCEPT
        !.status = "failed", !.started_at = 1, !.completed_at = 1, !.error = "start_failed"]

InitRace ==
    /\ now = 1
    /\ sessions = [id \in SessionIds |-> raced_session]
    /\ tasks = <<raced_task>>
    /\ messages = <<>>
    /\ containers = [c \in ContainerIds |->
                        IF c = 1 THEN [status |-> "created", name |-> 1] ELSE NoContainer]
    /\ api = [p \in ApiProcs |-> IdleCall]
    /\ worker = [w \in Workers |-> IdleWorker]
    /\ health = IdleHealth
    /\ idle = IdleSweep
    /\ roles = seed_roles
    /\ role_bindings = seed_bindings
    /\ authz = NoAuthz
    /\ service_accounts = seed_service_accounts
    /\ tokens = {}
    /\ authn = NoAuthn

RaceNext ==
    \/ \E p \in ApiProcs, caller \in Creators, id \in SessionIds :
          \E req \in UpdateRequests(id) : update_session_state(p, caller, id, req)
    \/ \E p \in ApiProcs : put_check(p) \/ put_write(p) \/ put_tasks(p)
    \/ health_tick
    \/ health_inspect
    \/ health_check
    \/ health_write

SpecRace == InitRace /\ [][RaceNext]_vars


(* the idle sweep with the clock advancing, over sessions that PUT state    *)
(* requests have given a container id                                       *)
SweepNext ==
    \/ Tick
    \/ idle_timeout_loop
    \/ \E p \in ApiProcs, caller \in Creators, id \in SessionIds,
          workspace \in SessionWorkspaces, timeout \in TimeoutChoices :
             create_session(p, caller, id, workspace, timeout)
    \/ \E w \in MainWorker : fetch_pending_tasks(w)
    \/ \E w \in MainWorker : process_task(w)
    \/ \E p \in ApiProcs, caller \in Creators, id \in SessionIds :
          \E req \in UpdateRequests(id) : update_session_state(p, caller, id, req)
    \/ \E p \in ApiProcs : put_check(p) \/ put_write(p) \/ put_tasks(p)

SpecSweep == Init /\ [][SweepNext]_vars


(* messages and completions against the idle sweep, with the clock          *)
(* advancing. They start where the worker has created and started the       *)
(* session's container and the owner has set the session Ready with that    *)
(* container's id.                                                          *)
expiring_session ==
    [create("team-a", 1, "alice") EXCEPT
        !.state = "Ready", !.container_id = 1, !.persistent_volume_id = 1,
        !.started_at = 1, !.last_activity_at = 1]

expiring_task ==
    [Task("create_session", 1, 1) EXCEPT
        !.status = "completed", !.started_at = 1, !.completed_at = 1]

InitExpiry ==
    /\ now = 1
    /\ sessions = [id \in SessionIds |-> expiring_session]
    /\ tasks = <<expiring_task>>
    /\ messages = <<>>
    /\ containers = [c \in ContainerIds |->
                        IF c = 1 THEN [status |-> "running", name |-> 1] ELSE NoContainer]
    /\ api = [p \in ApiProcs |-> IdleCall]
    /\ worker = [w \in Workers |-> IdleWorker]
    /\ health = IdleHealth
    /\ idle = IdleSweep
    /\ roles = seed_roles
    /\ role_bindings = seed_bindings
    /\ authz = NoAuthz
    /\ service_accounts = seed_service_accounts
    /\ tokens = {}
    /\ authn = NoAuthn

ExpiryNext ==
    \/ Tick
    \/ idle_timeout_loop
    \/ \E p \in ApiProcs, caller \in MessageCallers, id \in SessionIds :
          \/ \E msg \in MessageRequests : create_message(p, caller, id, msg)
          \/ complete_session_processing(p, caller, id)
    \/ \E p \in ApiProcs : msg_busy(p) \/ msg_persist(p) \/ complete_write(p)
    \/ \E c \in ContainerIds : ContainerExits(c)

SpecExpiry == InitExpiry /\ [][ExpiryNext]_vars


(***************************************************************************)
(* handlers/sessions.rs: remix_session (POST /sessions/{id}/remix)         *)
(***************************************************************************)
(* the ids the database gives to remixed sessions *)
RemixedIds == {2}

(* RemixSessionRequest.waiting_timeout_seconds *)
RemixTimeouts == TimeoutChoices \cup {NULL}

SESSION_REMIX_ALL == PermissionContext("api", "sessions", "remix-all", NoName, NoWorkspace)

(* Session::remix: INSERT INTO sessions (...) with the parent's workspace  *)
(* and the schema defaults                                                 *)
remix(parent, waiting_timeout_seconds, created_by) ==
    create(parent.workspace,
           IF waiting_timeout_seconds # NULL THEN waiting_timeout_seconds
           ELSE IF parent.waiting_timeout_seconds # NULL THEN parent.waiting_timeout_seconds
           ELSE 300,
           created_by)

remix_session(p, caller, parent_id, id, timeout) ==
    /\ api[p].pc = "idle"
    /\ ~sessions[id].exists
    /\ IF ~find_by_id(parent_id)
       THEN /\ Reply(p, caller, "remix_session", parent_id, "NOT_FOUND")
            /\ UNCHANGED sessions
       ELSE IF /\ sessions[parent_id].created_by # username(caller)
               /\ ~check_permission(caller, SESSION_REMIX_ALL)
       THEN /\ Reply(p, caller, "remix_session", parent_id, "FORBIDDEN")
            /\ UNCHANGED sessions
       ELSE /\ sessions' = [sessions EXCEPT
                    ![id] = remix(sessions[parent_id], timeout, username(caller))]
            /\ Reply(p, caller, "remix_session", id, "OK")
    /\ UNCHANGED <<now, tasks, messages, containers, worker, health, idle>>
    /\ UNCHANGED rbac_vars

(* sessions created, remixed and deleted while the single operator works   *)
(* through the queue                                                       *)
InitRemix ==
    /\ now = 1
    /\ sessions = [id \in SessionIds \cup RemixedIds |-> NoRow]
    /\ tasks = <<>>
    /\ messages = <<>>
    /\ containers = [c \in ContainerIds |-> NoContainer]
    /\ api = [p \in ApiProcs |-> IdleCall]
    /\ worker = [w \in Workers |-> IdleWorker]
    /\ health = IdleHealth
    /\ idle = IdleSweep
    /\ roles = seed_roles
    /\ role_bindings = seed_bindings
    /\ authz = NoAuthz
    /\ service_accounts = seed_service_accounts
    /\ tokens = {}
    /\ authn = NoAuthn

RemixNext ==
    \/ Tick
    \/ \E p \in ApiProcs, caller \in Creators, id \in SessionIds,
          workspace \in SessionWorkspaces, timeout \in TimeoutChoices :
             create_session(p, caller, id, workspace, timeout)
    \/ \E p \in ApiProcs, caller \in Callers, parent_id \in SessionIds, id \in RemixedIds,
          timeout \in RemixTimeouts :
             remix_session(p, caller, parent_id, id, timeout)
    \/ \E p \in ApiProcs, caller \in Creators, id \in SessionIds : delete_session(p, caller, id)
    \/ \E w \in MainWorker : fetch_pending_tasks(w)
    \/ \E w \in MainWorker : process_task(w)
    \/ \E c \in ContainerIds : ContainerExits(c)

(* SessionManager::run never stops polling and works through each batch *)
SpecRemix ==
    /\ InitRemix
    /\ [][RemixNext]_vars
    /\ \A w \in MainWorker : WF_vars(fetch_pending_tasks(w)) /\ WF_vars(process_task(w))


(* the session routes called by the Subject alice, who alone creates        *)
(* sessions through POST /sessions, and by the service account of the same  *)
(* name, which holds no role binding                                        *)
OwnerCallers == {AliceSub, AliceSA}

OwnerNext ==
    \/ \E p \in ApiProcs, caller \in Creators, id \in SessionIds,
          workspace \in SessionWorkspaces, timeout \in TimeoutChoices :
             create_session(p, caller, id, workspace, timeout)
    \/ \E p \in ApiProcs, caller \in OwnerCallers, id \in SessionIds :
          \/ get_session(p, caller, id)
          \/ \E req \in UpdateSessionRequests : update_session(p, caller, id, req)
          \/ \E req \in UpdateRequests(id) : update_session_state(p, caller, id, req)
          \/ delete_session(p, caller, id)
          \/ \E child \in RemixedIds, timeout \in RemixTimeouts :
                remix_session(p, caller, id, child, timeout)
    \/ \E p \in ApiProcs : put_check(p) \/ put_write(p) \/ put_tasks(p)

SpecOwner == InitRemix /\ [][OwnerNext]_vars


(***************************************************************************)
(* Properties                                                              *)
(***************************************************************************)
(* the allowed-transition graph *)
AllowedTransitions ==
    {<<"Init", "Ready">>, <<"Init", "Error">>,
     <<"Ready", "Busy">>, <<"Ready", "Idle">>, <<"Ready", "Error">>,
     <<"Busy", "Ready">>, <<"Busy", "Error">>,
     <<"Idle", "Ready">>, <<"Idle", "Error">>,
     <<"Error", "Init">>, <<"Error", "Ready">>}

(* C1: every committed change of a session's state, whichever operation    *)
(* writes it, is an edge of the allowed-transition graph.                  *)
C1_StateChangesFollowGraph ==
    [][\A id \in SessionIds :
          (sessions[id].exists /\ sessions'[id].state # sessions[id].state)
             => <<sessions[id].state, sessions'[id].state>> \in AllowedTransitions]_vars

(* C2: in every reachable state a session that is Ready or Busy has its    *)
(* container_id set.                                                       *)
C2_ReadyBusyHasContainer ==
    \A id \in SessionIds :
        (sessions[id].exists /\ sessions[id].state \in {"Ready", "Busy"})
           => sessions[id].container_id # NULL

(* C3: can_transition_to is true for exactly the eleven pairs of the       *)
(* allowed-transition graph and false for every other pair of the five     *)
(* states, every self-transition included.                                 *)
C3_TransitionTable ==
    /\ \A id \in SessionIds : sessions[id].state \in SessionState
    /\ Cardinality(SessionState) = 5
    /\ Cardinality(AllowedTransitions) = 11
    /\ \A current \in SessionState, target \in SessionState :
          can_transition_to(current, target) <=> <<current, target>> \in AllowedTransitions
    /\ \A state \in SessionState : ~can_transition_to(state, state)

(* a PUT has had its transition accepted by can_transition_to *)
C3_Witness ==
    \E p \in ApiProcs :
        /\ api[p].pc = "put_write"
        /\ api[p].old_state = "Ready"
        /\ api[p].req.state = "Idle"

(* C4: a PUT /sessions/{id}/state whose target is not allowed from the     *)
(* session's current state answers BAD_REQUEST, leaves the session row     *)
(* (state, timestamps, container_id, persistent_volume_id) as it was and   *)
(* enqueues no task.                                                       *)
C4_InvalidPutChangesNothing ==
    [][\A p \in ApiProcs :
          ( /\ api[p].pc = "put_check"
            /\ api'[p] # api[p]
            /\ find_by_id(api[p].sid)
            /\ <<sessions[api[p].sid].state, api[p].req.state>> \notin AllowedTransitions )
          => /\ api'[p].pc = "idle"
             /\ api'[p].status = "BAD_REQUEST"
             /\ sessions' = sessions
             /\ tasks' = tasks]_vars

(* a PUT was answered BAD_REQUEST *)
C4_Witness ==
    \E p \in ApiProcs :
        /\ api[p].pc = "idle"
        /\ api[p].op = "update_session_state"
        /\ api[p].status = "BAD_REQUEST"
        /\ sessions[api[p].sid].exists


(* the steps of one POST /sessions/{id}/messages *)
MessagePcs == {"reactivate", "restart", "reactivate_check", "reactivate_write", "msg_busy", "msg_persist"}

message_step(p) ==
    /\ api'[p] # api[p]
    /\ \/ api[p].pc \in MessagePcs
       \/ api[p].pc = "idle" /\ api'[p].op = "create_message"

C6_MessageDrivesState ==
    [][\A p \in ApiProcs :
          /\ (api[p].pc = "msg_busy" /\ api'[p] # api[p])
                => /\ api[p].old_state \in {"Idle", "Ready"}
                   /\ sessions[api[p].sid].state = "Ready"
                   /\ sessions'[api[p].sid].state = "Busy"
          /\ (api[p].pc = "msg_persist" /\ api'[p] # api[p])
                => /\ api'[p].status = "OK"
                   /\ messages' = Append(messages, Message(api[p].sid, api[p].msg, now))
                   /\ sessions'[api[p].sid].state =
                         IF api[p].old_state \in {"Idle", "Ready"} THEN "Busy"
                         ELSE api[p].old_state]_vars

(* a message to an Idle session was accepted and left the session Busy *)
C6_Witness ==
    \E p \in ApiProcs :
        /\ api[p].pc = "idle"
        /\ api[p].op = "create_message"
        /\ api[p].status = "OK"
        /\ api[p].old_state = "Idle"
        /\ sessions[api[p].sid].state = "Busy"
        /\ Len(messages) > 0

(* C7: POST /sessions/{id}/complete on a Busy session sets it Ready; on a  *)
(* session in another state it answers BAD_REQUEST and leaves the row as   *)
(* it was; on a missing or soft-deleted session it answers NOT_FOUND.      *)
C7_CompleteOnlyFromBusy ==
    [][\A p \in ApiProcs :
          /\ (api[p].pc = "idle" /\ api'[p].op = "complete" /\ api'[p] # api[p])
                => LET id == api'[p].sid
                   IN /\ sessions' = sessions
                      /\ ~find_by_id(id) => api'[p].status = "NOT_FOUND"
                      /\ (find_by_id(id) /\ sessions[id].state # "Busy")
                            => api'[p].status = "BAD_REQUEST"
                      /\ (find_by_id(id) /\ sessions[id].state = "Busy")
                            => api'[p].pc = "complete_write"
          /\ (api[p].pc = "complete_write" /\ api'[p] # api[p])
                => /\ sessions[api[p].sid].state = "Busy"
                   /\ sessions'[api[p].sid].state = "Ready"
                   /\ api'[p].status = "OK"]_vars

(* a completion was accepted and left the session Ready *)
C7_Witness ==
    \E p \in ApiProcs :
        /\ api[p].pc = "idle"
        /\ api[p].op = "complete"
        /\ api[p].status = "OK"
        /\ sessions[api[p].sid].state = "Ready"

(* a session the idle sweep has to move to Idle *)
idle_expired(id) ==
    /\ sessions[id].exists
    /\ sessions[id].deleted_at = NULL
    /\ sessions[id].state \in {"Ready", "Busy"}
    /\ sessions[id].last_activity_at # NULL
    /\ sessions[id].waiting_timeout_seconds # NULL
    /\ sessions[id].last_activity_at + sessions[id].waiting_timeout_seconds < now

(* C8: a tick of the idle sweep moves to Idle every non-deleted session    *)
(* that is Ready or Busy and whose last activity plus waiting timeout is   *)
(* in the past.                                                            *)
C8_IdleSweepTimesOut ==
    [][\A id \in SessionIds :
          (idle'.at # idle.at /\ idle_expired(id)) => sessions'[id].state = "Idle"]_vars

(* the bindings a request targeting a workspace may use when a binding     *)
(* scoped to another workspace counts as absent                            *)
bindings_in_scope(principal, workspace) ==
    { binding_of_row(row) : row \in
        { r \in role_bindings :
            /\ r.principal_name = name(principal)
            /\ r.principal_type = principal_type_str(subject_type(principal))
            /\ r.workspace \in {NoWorkspace, workspace} } }

(* C9: an authorization check for a request targeting a workspace treats   *)
(* every binding scoped to another workspace as absent.                    *)
C9_ScopedBindingIgnoredElsewhere ==
    [][(authz' # authz /\ authz'.workspace # NoWorkspace)
          => authz'.allowed =
               has_permission(authz'.principal, roles,
                              bindings_in_scope(authz'.principal, authz'.workspace),
                              PermissionContext(authz'.requirement.api_group,
                                                authz'.requirement.resource,
                                                authz'.requirement.verb,
                                                NoName, authz'.workspace))]_vars

(* the contexts has_permission is compared on *)
Contexts ==
    { PermissionContext(g, r, v, n, NoWorkspace) :
        g \in {"api", "other"}, r \in {"sessions", "agents"}, v \in {"update", "list"},
        n \in {NoName, "s1", "s2"} }

all_bindings == { binding_of_row(row) : row \in role_bindings }

(* C10: has_permission is true iff some binding has the principal's type   *)
(* and name and names a role of the role set with a rule whose api groups, *)
(* resources and verbs each hold '*' or the context's value and whose      *)
(* resource names are absent or hold '*' or the context's resource name.   *)
C10_HasPermissionIff ==
    \A principal \in Principals, context \in Contexts :
        has_permission(principal, roles, all_bindings, context)
        <=> \E binding \in all_bindings, role \in roles : \E rule \in role.rules :
               /\ binding.principal_type = principal.kind
               /\ binding.principal_name = principal.name
               /\ role.name = binding.role_name
               /\ ("*" \in rule.api_groups \/ context.api_group \in rule.api_groups)
               /\ ("*" \in rule.resources \/ context.resource \in rule.resources)
               /\ ("*" \in rule.verbs \/ context.verb \in rule.verbs)
               /\ \/ ~rule.resource_names.some
                  \/ /\ context.resource_name # NoName
                     /\ \/ "*" \in rule.resource_names.names
                        \/ context.resource_name \in rule.resource_names.names

(* a principal is granted by a name-restricted rule for the named resource *)
(* and refused without the name                                            *)
C10_Witness ==
    \E principal \in Principals \ {AdminSA} :
        /\ has_permission(principal, roles, all_bindings,
                          PermissionContext("api", "sessions", "update", "s1", NoWorkspace))
        /\ ~has_permission(principal, roles, all_bindings,
                           PermissionContext("api", "sessions", "update", NoName, NoWorkspace))

(* the verbs of the sessions resource *)
SessionVerbs ==
    {"list", "get", "create", "update", "delete", "list-all", "get-all", "remix-all"}

(* the principal is bound to a role with a rule for this verb on sessions *)
granted(principal, verb) ==
    has_permission(principal, roles, all_bindings,
                   PermissionContext("api", "sessions", verb, NoName, NoWorkspace))

(* the permission each guarded session route asks for *)
route_verb(op) ==
    CASE op = "get_session" -> "get-all"
      [] op = "delete_session" -> "delete"
      [] OTHER -> "update"

GuardedSessionOps == {"get_session", "update_session", "update_session_state", "delete_session"}

MessageOps == {"create_message", "clear_messages", "complete"}

(* C12: a step of POST or DELETE /sessions/{id}/messages or of POST        *)
(* /sessions/{id}/complete made for a principal that is neither the        *)
(* session's owner nor granted any sessions permission changes neither the *)
(* session's state, nor its last activity time, nor the stored messages.   *)
C12_MessageRoutesAuthorize ==
    [][\A p \in ApiProcs :
          ( /\ api'[p] # api[p]
            /\ api'[p].op \in MessageOps
            /\ sessions[api'[p].sid].exists
            /\ sessions[api'[p].sid].created_by # api'[p].caller.name
            /\ \A verb \in SessionVerbs : ~granted(api'[p].caller, verb) )
          => /\ sessions'[api'[p].sid].state = sessions[api'[p].sid].state
             /\ sessions'[api'[p].sid].last_activity_at = sessions[api'[p].sid].last_activity_at
             /\ messages' = messages]_vars

(* the principal holds a rule that grants every group, resource and verb *)
is_admin(principal) ==
    has_permission(principal, roles, all_bindings,
                   PermissionContext("*", "*", "*", NoName, NoWorkspace))

(* the named service account is missing or inactive *)
absent_or_inactive(user) ==
    ~(user \in AccountNames /\ service_accounts[user].exists /\ service_accounts[user].active)

(* C13: a request to a protected route bearing a signed, unexpired token   *)
(* of a service account that is absent or inactive at the time of the      *)
(* request is answered UNAUTHORIZED and its handler does not run.          *)
C13_InactiveAccountRejected ==
    [][( /\ authn' # authn
         /\ authn'.route \in ProtectedRoutes
         /\ authn'.bearer.sub_type = "ServiceAccount"
         /\ decode_jwt(authn'.bearer, now)
         /\ absent_or_inactive(authn'.bearer.sub) )
       => (authn'.status = "UNAUTHORIZED" /\ ~authn'.ran)]_vars

(* C14: POST /auth/external hands out a token only to a caller that bears  *)
(* a valid token of a principal with admin permission.                     *)
C14_ExternalLoginAdminOnly ==
    [][( /\ authn' # authn
         /\ authn'.route = "/auth/external"
         /\ authn'.issued # NoToken )
       => /\ decode_jwt(authn'.bearer, now)
          /\ is_admin([kind |-> authn'.bearer.sub_type, name |-> authn'.bearer.sub])]_vars

(* the tasks a worker holds *)
batch_of(w) == { worker[w].batch[k] : k \in 1..Len(worker[w].batch) }
batch_after(w) == { worker'[w].batch[k] : k \in 1..Len(worker'[w].batch) }

(* C15: under every interleaving of the workers, a claim takes at most 5   *)
(* tasks, all of them pending and held by no other worker, none newer than *)
(* a pending task it leaves behind, and as many as the limit allows; the   *)
(* same step sets them to processing with started_at, and touches no other *)
(* task.                                                                   *)
C15_ClaimIsExclusive ==
    [][\A w \in Workers :
          (worker[w].pc = "idle" /\ worker'[w].pc = "batch")
          => LET claimed == batch_after(w)
                 waiting == { i \in 1..Len(tasks) : tasks[i].status = "pending" }
             IN /\ Cardinality(claimed) = Len(worker'[w].batch)
                /\ Cardinality(claimed) <= 5
                /\ Cardinality(claimed) = IF Cardinality(waiting) < 5
                                          THEN Cardinality(waiting) ELSE 5
                /\ claimed \subseteq waiting
                /\ \A v \in Workers \ {w} : claimed \cap batch_of(v) = {}
                /\ \A i \in claimed, j \in waiting \ claimed :
                       tasks[i].created_at <= tasks[j].created_at
                /\ \A i \in claimed :
                       /\ tasks'[i].status = "processing"
                       /\ tasks'[i].started_at = now
                /\ \A i \in (1..Len(tasks)) \ claimed : tasks'[i] = tasks[i]]_vars

(* one worker holds a full claim of five tasks while the other holds the   *)
(* task that was left                                                      *)
C15_Witness ==
    /\ worker["w1"].pc = "batch"
    /\ Len(worker["w1"].batch) = 5
    /\ worker["w2"].pc = "batch"
    /\ batch_of("w1") \cap batch_of("w2") = {}

(* C16: a task's status only moves pending -> processing -> completed or   *)
(* failed; a completed or failed task never changes again; no task row     *)
(* disappears; and a worker takes up only pending tasks and handles only   *)
(* tasks that are processing.                                              *)
C16_TaskStatusMonotone ==
    [][/\ Len(tasks') >= Len(tasks)
       /\ \A i \in 1..Len(tasks) :
             /\ tasks'[i].task_type = tasks[i].task_type
             /\ tasks'[i].session_id = tasks[i].session_id
             /\ tasks'[i].status # tasks[i].status
                   => <<tasks[i].status, tasks'[i].status>> \in
                         {<<"pending", "processing">>, <<"processing", "completed">>,
                          <<"processing", "failed">>}
       /\ \A w \in Workers :
             /\ (worker[w].pc = "idle" /\ worker'[w].pc = "batch")
                   => \A i \in batch_after(w) : tasks[i].status = "pending"
             /\ (worker[w].pc = "batch" /\ worker'[w] # worker[w])
                   => tasks[Head(worker[w].batch)].status = "processing"]_vars

(* a task has failed and stays failed while the worker has gone on to      *)
(* claim a later task                                                      *)
C16_Witness ==
    \E i, j \in 1..Len(tasks) :
        /\ i < j
        /\ tasks[i].status = "failed"
        /\ tasks[j].status \in {"processing", "completed"}
        /\ tasks[j].started_at # NULL

(* the handler of task i returns success in this step: the container was   *)
(* created and started, or removed                                         *)
handler_succeeds(i) ==
    LET id == tasks[i].session_id
    IN CASE tasks[i].task_type = "create_session" ->
               \E c \in ContainerIds :
                   /\ containers[c].status = "none"
                   /\ containers'[c] = [status |-> "running", name |-> id]
         [] tasks[i].task_type = "destroy_session" ->
               /\ named(id) # {}
               /\ \A c \in named(id) : containers'[c].status = "removed"
         [] OTHER -> FALSE

Final == {"completed", "failed"}

(* C17: every claimed task is eventually finalized; the step that handles  *)
(* it leaves it completed, with completed_at, exactly when its handler     *)
(* succeeds and failed, with the error text and completed_at, exactly when *)
(* it does not; whatever the outcome the worker keeps the rest of its      *)
(* batch, and every pending task is eventually finalized too.              *)
C17_ClaimedTasksFinalized ==
    /\ [][\A w \in Workers :
             (worker[w].pc = "batch" /\ worker'[w] # worker[w])
             => LET i == Head(worker[w].batch)
                IN /\ tasks'[i].status \in Final
                   /\ tasks'[i].completed_at = now
                   /\ tasks'[i].status = "completed" <=> handler_succeeds(i)
                   /\ tasks'[i].status = "completed" => tasks'[i].error = NoReason
                   /\ tasks'[i].status = "failed" => tasks'[i].error # NoReason
                   /\ worker'[w].batch = Tail(worker[w].batch)
                   /\ \A j \in batch_after(w) : tasks'[j].status = "processing"]_vars
    /\ \A i \in 1..QueueLen :
          (Len(tasks) >= i /\ tasks[i].status \in {"pending", "processing"})
             ~> (Len(tasks) >= i /\ tasks[i].status \in Final)

(* a task of a batch failed and a later task of the queue completed *)
C17_Witness ==
    \E i, j \in 1..Len(tasks) :
        /\ i < j
        /\ tasks[i].status = "failed"
        /\ tasks[i].error = "Unknown task type"
        /\ tasks[i].completed_at # NULL
        /\ tasks[j].status = "completed"
        /\ tasks[j].completed_at # NULL

(* the session is already where the task is meant to bring it *)
in_target_configuration(i) ==
    LET id == tasks[i].session_id
    IN CASE tasks[i].task_type = "create_session" ->
               /\ sessions[id].state = "Ready"
               /\ \E c \in named(id) : is_container_running(c)
         [] tasks[i].task_type = "stop_session" ->
               /\ sessions[id].state = "Idle"
               /\ ~\E c \in named(id) : is_container_running(c)
         [] tasks[i].task_type = "destroy_session" -> named(id) = {}
         [] OTHER -> FALSE

(* C18: a create_session, stop_session or destroy_session task handled     *)
(* for a session that is already in the task's target configuration        *)
(* succeeds and changes neither the session rows nor the containers.       *)
C18_ReplayIsNoOp ==
    [][\A w \in Workers :
          ( /\ worker[w].pc = "batch"
            /\ worker'[w] # worker[w]
            /\ in_target_configuration(Head(worker[w].batch)) )
          => /\ tasks'[Head(worker[w].batch)].status = "completed"
             /\ sessions' = sessions
             /\ containers' = containers]_vars

ListCallers == {AliceSub, BobSub, AdminSA}
ListWorkspaces == Workspaces \cup {NoWorkspace}
ListCreators == {NoName, "alice", "bob"}
ListStates == SessionState \cup {"NONE"}

(* C19: a soft-deleted session keeps its deleted_at whatever runs          *)
(* afterwards, a DELETE of it answers NOT_FOUND and changes nothing, and   *)
(* it is returned neither by find_by_id, nor by find_all under any         *)
(* workspace / created_by filter, nor by the list endpoint for any caller  *)
(* and query.                                                              *)
C19_SoftDeleteHides ==
    /\ [](\A id \in SessionIds :
            (sessions[id].exists /\ sessions[id].deleted_at # NULL)
            => /\ ~find_by_id(id)
               /\ \A workspace \in ListWorkspaces, created_by \in ListCreators :
                     /\ id \notin find_all_filtered(workspace, created_by)
                     /\ \A caller \in ListCallers, state \in ListStates :
                           id \notin list_sessions(caller, workspace, created_by, state).rows)
    /\ [][/\ \A id \in SessionIds :
               sessions[id].deleted_at # NULL
                  => sessions'[id].deleted_at = sessions[id].deleted_at
           /\ \A p \in ApiProcs :
                 ( /\ api[p].pc = "idle"
                   /\ api'[p] # api[p]
                   /\ api'[p].op = "delete_session"
                   /\ sessions[api'[p].sid].deleted_at # NULL )
                 => /\ api'[p].status = "NOT_FOUND"
                    /\ sessions' = sessions
                    /\ tasks' = tasks]_vars

(* a session deleted at an earlier time was asked to be deleted again *)
C19_Witness ==
    \E p \in ApiProcs :
        /\ api[p].pc = "idle"
        /\ api[p].op = "delete_session"
        /\ api[p].status = "NOT_FOUND"
        /\ sessions[api[p].sid].exists
        /\ sessions[api[p].sid].deleted_at # NULL
        /\ sessions[api[p].sid].deleted_at < now

C21_ContainerIdStable ==
    [][\A id \in SessionIds :
          (sessions[id].exists /\ sessions[id].container_id # NULL)
              => sessions'[id].container_id \in {sessions[id].container_id, NULL}]_vars

(* C22: concurrent Session::update_state calls on one session are           *)
(* linearized: every state write an update_state call commits is a          *)
(* transition the graph allows from the state committed just before it.     *)
update_state_writes(id) ==
    \/ \E p \in ApiProcs : /\ api[p].pc \in {"put_write", "reactivate_write"}
                           /\ api[p].sid = id
                           /\ api'[p].pc # api[p].pc
    \/ /\ health.pc = "health_write"
       /\ Head(health.snapshot).id = id
       /\ health' # health

C22_UpdateStateLinearized ==
    [][\A id \in SessionIds :
          update_state_writes(id)
              => <<sessions[id].state, sessions'[id].state>> \in AllowedTransitions]_vars

(* C23: POST /sessions/{id}/messages with role Agent and no agent_id is     *)
(* answered BAD_REQUEST in the step that receives it, with the sessions and *)
(* the stored messages unchanged; and every stored message with role Agent  *)
(* has its agent_id set.                                                    *)
AgentWithoutId == [role |-> "Agent", agent_id |-> NULL]

C23_AgentNeedsAgentId ==
    /\ [](\A i \in 1..Len(messages) :
             messages[i].role = "Agent" => messages[i].agent_id # NULL)
    /\ [][\A p \in ApiProcs, caller \in MessageCallers, id \in SessionIds :
             create_message(p, caller, id, AgentWithoutId)
                 => /\ api'[p].pc = "idle"
                    /\ api'[p].status = "BAD_REQUEST"
                    /\ sessions' = sessions
                    /\ messages' = messages]_vars

(* the request was refused on a session that a message would have made Busy *)
C23_Witness ==
    \E p \in ApiProcs :
        /\ api[p].pc = "idle"
        /\ api[p].op = "create_message"
        /\ api[p].status = "BAD_REQUEST"
        /\ find_by_id(api[p].sid)
        /\ sessions[api[p].sid].state = "Ready"

(* C24: a rule of a stored role whose resource_names is present but empty   *)
(* is unrestricted: on every context, with or without a resource name, it   *)
(* grants exactly as the same rule with resource_names absent does.         *)
unrestricted(rule) == [rule EXCEPT !.resource_names = NoNames]

C24_EmptyNamesUnrestricted ==
    \A role \in roles : \A rule \in role.rules : \A context \in Contexts :
        (rule.resource_names.some /\ rule.resource_names.names = {})
            => (rule_grants_permission(rule, context)
                    <=> rule_grants_permission(unrestricted(rule), context))

(* the task worker w is about to process, and whether that step completes it *)
processing(w) == Head(worker[w].batch)
completes(w) ==
    /\ worker[w].pc = "batch"
    /\ worker'[w] # worker[w]
    /\ tasks'[processing(w)].status = "completed"

(* C25: when the worker completes a create_session task for a session in    *)
(* Init, the session is Ready, its container_id is the id of the container  *)
(* the step created and started, and its persistent_volume_id is the        *)
(* session id.                                                              *)
C25_CreateRecordsContainer ==
    [][\A w \in Workers :
          (/\ completes(w)
           /\ tasks[processing(w)].task_type = "create_session"
           /\ sessions[tasks[processing(w)].session_id].state = "Init")
              => LET id == tasks[processing(w)].session_id
                 IN /\ sessions'[id].state = "Ready"
                    /\ sessions'[id].container_id # NULL
                    /\ containers[sessions'[id].container_id].status = "none"
                    /\ containers'[sessions'[id].container_id] =
                           [status |-> "running", name |-> id]
                    /\ sessions'[id].persistent_volume_id = id]_vars

(* C26: when the worker takes a stop_session task, it completes the task;   *)
(* if the session has a container, the container is stopped, container_id   *)
(* is kept and the session is Idle afterwards; if it has none, nothing      *)
(* else changes.                                                            *)
C26_StopSessionStops ==
    [][\A w \in Workers :
          (/\ worker[w].pc = "batch"
           /\ worker'[w] # worker[w]
           /\ tasks[processing(w)].task_type = "stop_session")
              => LET id == tasks[processing(w)].session_id
                 IN /\ tasks'[processing(w)].status = "completed"
                    /\ IF named(id) # {}
                       THEN /\ \A c \in named(id) : containers'[c].status = "exited"
                            /\ sessions'[id].container_id = sessions[id].container_id
                            /\ sessions'[id].state = "Idle"
                       ELSE /\ sessions' = sessions
                            /\ containers' = containers]_vars

(* the message handler of p is at its reactivate_session call, and the      *)
(* session is there to be read                                              *)
reactivating(p) == api[p].pc = "reactivate" /\ find_by_id(api[p].sid)
(* the container the session row names is one the engine has *)
container_present(id) ==
    sessions[id].container_id # NULL /\ container_exists(sessions[id].container_id)
(* the engine would create and start a container for the session *)
engine_can_create(id) == "ok" \in create_session_container_outcomes(id)

(* C27: reactivate_session on a session that is not Idle fails and changes  *)
(* nothing; on an Idle session whose container is present it starts that    *)
(* container and writes Ready with the same container_id; on an Idle        *)
(* session whose container is not present it goes on to create a new        *)
(* container, whenever the engine would create one.                         *)
C27_ReactivateSession ==
    /\ [][\A p \in ApiProcs :
             /\ (reactivating(p) /\ api'[p] # api[p])
                   => LET id == api[p].sid
                      IN /\ sessions[id].state # "Idle"
                               => /\ api'[p].pc = "idle"
                                  /\ api'[p].status = "INTERNAL_ERROR"
                                  /\ sessions' = sessions
                                  /\ containers' = containers
                         /\ (sessions[id].state = "Idle" /\ container_present(id))
                               => /\ api'[p].pc =
                                        IF is_container_running(sessions[id].container_id)
                                        THEN "restart" ELSE "reactivate_check"
                                  /\ api'[p].pc = "reactivate_check"
                                        => is_container_running(sessions[id].container_id)'
                                  /\ api'[p].req.state = "Ready"
                                  /\ api'[p].req.container_id = sessions[id].container_id
             /\ (api[p].pc = "restart" /\ api'[p].pc = "reactivate_check")
                   => /\ is_container_running(api[p].req.container_id)'
                      /\ api'[p].req = api[p].req
             /\ (api[p].pc = "reactivate_write" /\ api'[p] # api[p])
                   => /\ sessions'[api[p].sid].state = "Ready"
                      /\ sessions'[api[p].sid].container_id = api[p].req.container_id]_vars
    /\ [](\A p \in ApiProcs :
             (/\ reactivating(p)
              /\ sessions[api[p].sid].state = "Idle"
              /\ ~container_present(api[p].sid)
              /\ engine_can_create(api[p].sid))
                 => ENABLED (reactivate_session(p) /\ api'[p].pc = "reactivate_check"))

(* C28: when the worker completes a destroy_session task, the session's     *)
(* container_id and persistent_volume_id are cleared and the step does not  *)
(* write the session's state.                                               *)
C28_DestroyClearsContainer ==
    [][\A w \in Workers :
          (completes(w) /\ tasks[processing(w)].task_type = "destroy_session")
              => LET id == tasks[processing(w)].session_id
                 IN /\ sessions'[id].container_id = NULL
                    /\ sessions'[id].persistent_volume_id = NULL
                    /\ sessions'[id].state = sessions[id].state]_vars

(* C29: when the worker's create_session handler fails, the task is marked  *)
(* failed with the error text and the session is in Error with a            *)
(* termination reason; it does not stay in Init.                            *)
C29_CreateFailureMarksError ==
    [][\A w \in Workers :
          (/\ worker[w].pc = "batch"
           /\ worker'[w] # worker[w]
           /\ tasks[processing(w)].task_type = "create_session"
           /\ tasks'[processing(w)].status # "completed")
              => LET id == tasks[processing(w)].session_id
                 IN /\ tasks'[processing(w)].status = "failed"
                    /\ tasks'[processing(w)].error # NoReason
                    /\ sessions'[id].state = "Error"
                    /\ sessions'[id].termination_reason # NoReason]_vars

(* the sessions a health-check pass is to act on, and what the engine       *)
(* reports for a container                                                  *)
health_candidates ==
    { id \in SessionIds : /\ sessions[id].exists
                          /\ sessions[id].deleted_at = NULL
                          /\ sessions[id].state \in {"Ready", "Busy"}
                          /\ sessions[id].container_id # NULL }
inspection_succeeds(c) == c \in ContainerIds /\ containers[c].status \in {"created", "running", "exited"}
reported_reason(c) ==
    CASE containers[c].status = "created" -> "Container status: Creating"
      [] containers[c].status = "exited" -> "Container status: Stopped"
      [] OTHER -> "Container status: Running"

(* C30: a health-check pass that no other writer runs into takes up exactly *)
(* the live sessions that are Ready or Busy and have a container_id; for    *)
(* each it inspects the container and, when the engine reports a status     *)
(* other than running, writes the session to Error with the reason          *)
(* "Container status: <status>"; when the container is running or the       *)
(* inspection fails it leaves the session as it is, as it leaves every      *)
(* other session.                                                           *)
C30_HealthPassMarksError ==
    [][/\ (health.pc = "idle" /\ health' # health)
             => /\ { health'.snapshot[i].id : i \in 1..Len(health'.snapshot) } = health_candidates
                /\ sessions' = sessions
       /\ (health.pc = "inspect" /\ health' # health)
             => LET c == Head(health.snapshot).container_id
                IN /\ sessions' = sessions
                   /\ IF inspection_succeeds(c) /\ containers[c].status # "running"
                      THEN /\ health'.pc = "health_check"
                           /\ health'.snapshot = health.snapshot
                           /\ health'.req.state = "Error"
                           /\ health'.req.termination_reason = reported_reason(c)
                      ELSE health'.snapshot = Tail(health.snapshot)
       /\ (health.pc = "health_check" /\ health' # health)
             => /\ sessions' = sessions
                /\ health'.pc = "health_write"
                /\ health'.req = health.req
       /\ (health.pc = "health_write" /\ health' # health)
             => LET id == Head(health.snapshot).id
                IN /\ sessions'[id].state = "Error"
                   /\ sessions'[id].termination_reason = health.req.termination_reason
                   /\ health'.snapshot = Tail(health.snapshot)
                   /\ \A other \in SessionIds \ {id} : sessions'[other] = sessions[other]
       /\ (health.pc # "health_write" /\ health' # health) => sessions' = sessions]_vars

(* a pass has written a session whose container had stopped to Error *)
C30_Witness ==
    \E id \in SessionIds :
        /\ health.pc = "idle"
        /\ sessions[id].state = "Error"
        /\ sessions[id].termination_reason = "Container status: Stopped"

(* the message handler of p has stopped the container of the row the health *)
(* loop is at, and has not started it again                                 *)
restart_in_flight(p) ==
    /\ api[p].pc = "restart"
    /\ health.snapshot # <<>>
    /\ api[p].sid = Head(health.snapshot).id
    /\ api[p].req.container_id = Head(health.snapshot).container_id
    /\ containers[api[p].req.container_id].status = "exited"

(* C31: the health loop gives no grace to lifecycle work in flight: when it *)
(* inspects, from its earlier snapshot, a container that a reactivation has *)
(* stopped and not yet started again, it goes on to its update to Error     *)
(* with the reason "Container status: Stopped", the update passes its check *)
(* whenever the session's state allows Error, and the write commits Error.  *)
C31_NoGraceForRestart ==
    [][/\ (health.pc = "inspect" /\ health' # health /\ \E p \in ApiProcs : restart_in_flight(p))
             => /\ health'.pc = "health_check"
                /\ health'.req.state = "Error"
                /\ health'.req.termination_reason = "Container status: Stopped"
       /\ (/\ health.pc = "health_check"
           /\ health' # health
           /\ \E p \in ApiProcs : restart_in_flight(p)
           /\ find_by_id(Head(health.snapshot).id)
           /\ <<sessions[Head(health.snapshot).id].state, "Error">> \in AllowedTransitions)
             => health'.pc = "health_write"
       /\ (health.pc = "health_write" /\ health' # health)
             => sessions'[Head(health.snapshot).id].state = "Error"]_vars

(* the session was marked Error while its container was stopped for the     *)
(* restart                                                                  *)
C31_Witness ==
    \E p \in ApiProcs :
        /\ api[p].pc = "restart"
        /\ containers[api[p].req.container_id].status = "exited"
        /\ health.pc = "idle"
        /\ sessions[api[p].sid].state = "Error"
        /\ sessions[api[p].sid].termination_reason = "Container status: Stopped"

(* the rows of session_tasks that ask to stop session id *)
stop_session_tasks(q, id) ==
    { i \in 1..Len(q) : q[i].session_id = id /\ q[i].task_type = "stop_session" }

(* C32: one tick of the idle sweep over a non-deleted Ready session whose   *)
(* last activity plus waiting timeout has passed leaves the session Idle    *)
(* with its container id and volume id retained, its container stopped but  *)
(* not removed, and a stop_session task recorded for it.                    *)
C32_SweepStopsAndRecords ==
    [][\A id \in SessionIds :
          (/\ idle'.at # idle.at
           /\ id \in waiting_sessions_to_timeout(now)
           /\ sessions[id].container_id # NULL
           /\ container_exists(sessions[id].container_id)
           /\ is_container_running(sessions[id].container_id))
             => /\ sessions'[id].state = "Idle"
                /\ sessions'[id].container_id = sessions[id].container_id
                /\ sessions'[id].persistent_volume_id = sessions[id].persistent_volume_id
                /\ containers'[sessions[id].container_id].status = "exited"
                /\ stop_session_tasks(tasks', id) # stop_session_tasks(tasks, id)]_vars

(* C33: with a single worker, tasks of one session are dispatched in the    *)
(* order of their created_at: when the handler of a task runs, every task   *)
(* of the same session with an earlier created_at has already been          *)
(* finalized, whether it was claimed in an earlier batch or in the same one. *)
C33_SessionTasksInOrder ==
    [][\A w \in MainWorker :
          (worker[w].pc = "batch" /\ worker'[w] # worker[w])
             => LET i == Head(worker[w].batch)
                IN \A j \in 1..Len(tasks) :
                      (/\ tasks[j].session_id = tasks[i].session_id
                       /\ tasks[j].created_at < tasks[i].created_at)
                         => tasks[j].status \in {"completed", "failed"}]_vars

(* the task rows a committed PUT state write is to come with *)
matching_tasks(old_state, new_state, has_container, id, t) ==
    CASE new_state = "Ready" /\ ~has_container -> <<Task("create_session", id, t)>>
      [] new_state = "Ready" /\ old_state = "Idle" -> <<Task("reactivate_session", id, t)>>
      [] old_state = "Ready" /\ new_state = "Idle" -> <<Task("stop_session", id, t)>>
      [] OTHER -> <<>>

(* C34: PUT /sessions/{id}/state enqueues the matching task as one unit     *)
(* with the state write: the step that commits the write also appends       *)
(* create_session for a move to Ready without a container id,               *)
(* reactivate_session for Idle to Ready and stop_session for Ready to Idle, *)
(* so that no state has the write committed and the task missing.           *)
C34_StateWriteWithTask ==
    [][\A p \in ApiProcs :
          (api[p].pc = "put_write" /\ api'[p].pc # "put_write")
             => tasks' = tasks \o matching_tasks(api[p].old_state, api[p].req.state,
                                                 sessions'[api[p].sid].container_id # NULL,
                                                 api[p].sid, now)]_vars

C36_RemixEnqueuesCreate ==
    /\ [][\A id \in RemixedIds :
             (~sessions[id].exists /\ sessions'[id].exists)
                => /\ Len(tasks') = Len(tasks) + 1
                   /\ tasks'[Len(tasks')] = Task("create_session", id, now)]_vars
    /\ \A id \in RemixedIds :
          (sessions[id].exists /\ sessions[id].state = "Init")
             ~> (sessions[id].state # "Init")

(* C37: DELETE /role-bindings/{id} with a binding's UUID removes exactly    *)
(* that binding: whenever such a request removes anything, it removes one   *)
(* row, and every other role binding, bindings of the same role in the same *)
(* workspace to other principals included, is left as it was.               *)
C37_DeleteRemovesOneBinding ==
    [][(authz'.op = "delete_role_binding" /\ role_bindings' # role_bindings)
          => \E rb \in role_bindings : role_bindings' = role_bindings \ {rb}]_vars

OwnerOps == GuardedSessionOps \cup {"remix_session"}

(* the permission remix asks for, and the one of each other guarded route *)
owner_route_verb(op) == IF op = "remix_session" THEN "remix-all" ELSE route_verb(op)

(* C38: ownership distinguishes principal kinds: get, update, update-state, *)
(* delete and remix of a session created through POST /sessions by the      *)
(* Subject alice, asked by the ServiceAccount alice holding no sessions     *)
(* permission, are answered FORBIDDEN and change neither the session rows   *)
(* nor the task queue.                                                      *)
C38_OwnershipByKind ==
    [][\A p \in ApiProcs, id \in SessionIds :
          ( /\ api[p].pc = "idle"
            /\ api'[p] # api[p]
            /\ api'[p].op \in OwnerOps
            /\ api'[p].sid = id \/ (api'[p].op = "remix_session" /\ api'[p].sid \in RemixedIds)
            /\ find_by_id(id)
            /\ sessions[id].created_by = name(AliceSub)
            /\ api'[p].caller = AliceSA
            /\ ~granted(AliceSA, owner_route_verb(api'[p].op)) )
          => /\ api'[p].pc = "idle"
             /\ api'[p].status = "FORBIDDEN"
             /\ sessions' = sessions
             /\ tasks' = tasks]_vars

(* C39: the Busy write of the message handler and the Ready write of the    *)
(* completion handler are conditional on the state they find when they      *)
(* write, under any interleaving with the other writers: the message        *)
(* handler's UPDATE changes a row only from Ready to Busy, the completion   *)
(* handler's only from Busy to Ready, and a row that another writer has     *)
(* left in Error, Idle or Init since the handler's read is not changed.     *)
C39_ConditionalWrites ==
    [][\A p \in ApiProcs :
          LET id == api[p].sid
          IN /\ (api[p].pc = "msg_busy" /\ api'[p] # api[p])
                   => IF sessions[id].state = "Ready"
                      THEN sessions'[id].state = "Busy"
                      ELSE sessions'[id] = sessions[id]
             /\ (api[p].pc = "complete_write" /\ api'[p] # api[p])
                   => IF sessions[id].state = "Busy"
                      THEN sessions'[id].state = "Ready"
                      ELSE sessions'[id] = sessions[id]]_vars

(* the message handler read the session as Ready and is at its UPDATE, and  *)
(* another writer has meanwhile committed Error                             *)
C39_Witness ==
    \E p \in ApiProcs :
        /\ api[p].pc = "msg_busy"
        /\ api[p].old_state = "Ready"
        /\ sessions[api[p].sid].state = "Error"

(* the state, container id and lifecycle timestamps of a session row *)
lifecycle_fields(row) ==
    <<row.state, row.container_id, row.started_at, row.last_activity_at, row.terminated_at>>

(* C40: once a session is soft-deleted, no later step changes its state,    *)
(* container id or lifecycle timestamps, whether it is a worker handler, a  *)
(* state update in flight or a reconciliation loop.                         *)
C40_DeletedRowFrozen ==
    [][\A id \in SessionIds :
          (sessions[id].exists /\ sessions[id].deleted_at # NULL)
             => lifecycle_fields(sessions'[id]) = lifecycle_fields(sessions[id])]_vars

====
